---- MODULE Spec2Model ----
(***************************************************************************)
(* tidb-lightning-ctl (br/cmd/tidb-lightning-ctl/main.go): the recovery    *)
(* commands of the control tool, modelled as state machines over the       *)
(* checkpoint store, the SQL catalog, the import backend, the local sorted *)
(* KV directory, the dump folder and the storage fleet.                    *)
(***************************************************************************)
EXTENDS Integers, Sequences, FiniteSets, Bags, TLC

VARIABLES
    pc,               \* position of the running command
    ret,              \* the error the command returned (NoErr = nil)
    cpdb,             \* checkpoint store: table name -> table checkpoint row
    catalog,          \* SQL catalog: the target tables that exist
    metas,            \* load-metadata schema: [tableMeta, taskMeta, rows]
    segments,         \* local sorted-KV dir: UUIDs whose segment exists
    tableName,        \* the command's target argument ("all" or a table)
    backendKind,      \* cfg.TikvImporter.Backend
    targetTables,     \* result of DestroyErrorCheckpoint
    ti,               \* index of the range loop over targetTables (1-based)
    engineID,         \* loop variable of the engine loops (int32)
    lastErr,          \* checkpointErrorDestroy's lastErr
    importerConn,     \* connection to the import service: none, open or failed
    dropAttempted,    \* history: tables DropTable was called on
    closeAttempted,   \* history: engines UnsafeCloseEngine was called on
    closeOK,          \* history: engines whose close succeeded
    cleanupAttempted, \* history: engines Cleanup was called on
    localAttempted,   \* history: UUIDs File.Cleanup was called on
    metasAttempted,   \* history: cleanupMetas was called
    dropFailed,       \* history: a DropTable failed
    engineFailed,     \* history: an engine close or cleanup failed
    lastFailed,       \* history: the error of the last step that failed
    dumpFolder,       \* the dump folder: file name -> [exists, data]
    tablesFile,       \* checkpointDump's tablesFile handle: [name, off]
    enginesFile,      \* checkpointDump's enginesFile handle
    chunksFile,       \* checkpointDump's chunksFile handle
    stores,           \* the fleet as discovery reports it: node -> state
    nodeMode,         \* the mode each storage node is in
    fleetCmd,         \* the fleet command: compact, switch-mode or fetch-mode
    modeArg,          \* the -switch-mode argument
    selected,         \* the nodes the dispatcher selected after discovery
    invoked,          \* history: nodes the operation was invoked on
    opFailed,         \* history: nodes whose RPC failed
    logged,           \* nodes whose error the dispatcher logged
    printed,          \* fetchMode's output line per node
    engineArg,        \* the -import-engine / -cleanup-engine argument
    engCmd,           \* import-engine or cleanup-engine
    cfgSplitSize,     \* cfg.TikvImporter.RegionSplitSize
    splitHint,        \* the region split size handed to Import
    engState,         \* import service: engine UUID -> lifecycle state
    cluster,          \* the cluster's data: a bag of <<key, value>> pairs
    ce,               \* the closed engine handle (its UUID), or NoEngine
    runNo,            \* which run of the command on this argument this is
    afterFirst,       \* history: the cluster's data after the first import
    engCalls,         \* history: the backend calls of this run, in order
    segDir,           \* sorted-KV dir: UUID -> [exists, files] of its segment
    lRange,           \* the engine range both cleaning processes work on
    lPc,              \* per process: position in the local loop and File.Cleanup
    lID,              \* per process: engineID of the local loop
    lSeen,            \* per process: directory entries read and not yet removed
    lLastErr,         \* per process: lastErr
    lHist,            \* per process history: [fault, absent, raced]
    store,            \* checkpoint store by level: [task, tables, engines, chunks]
    rmTaskCp,         \* checkpointRemove's taskCp: [nil, TaskID]
    rmRun,            \* which run of checkpointRemove this is
    rmHist,           \* history of the run: what was called, the state before
    cpdb0,            \* history: the checkpoint store when the command started
    dbExists,         \* whether the checkpoint store exists
    glTables,         \* getLocalStoringTables' tables slice
    glOut,            \* what getLocalStoringTables printed
    glHist,           \* history: [checked, exist, opened, existed]
    flags,            \* the action flags given on the command line
    executed,         \* the command run() dispatched to, or "none"
    usage,            \* whether the usage help was printed
    exitStatus,       \* the process exit status; -1 while it runs
    aggRows,          \* SUM: the two inputs, each a sequence of decimals and NULLs
    aggPc,            \* SUM: position of the aggregation
    aggPartial,       \* SUM: the partial result of each input
    aggFinal,         \* SUM: the partial result the others are merged into
    aggResult         \* SUM: the final result appended to the chunk

worldVars == <<cpdb, catalog, metas, segments>>
cfgVars == <<tableName, backendKind, cpdb0>>
loopVars == <<targetTables, ti, engineID>>
attemptVars == <<dropAttempted, closeAttempted, closeOK, cleanupAttempted,
                 localAttempted, metasAttempted>>
failVars == <<dropFailed, engineFailed, lastFailed>>

destroyVars == <<pc, ret, worldVars, cfgVars, loopVars, lastErr, importerConn,
                 attemptVars, failVars>>

dumpVars == <<dumpFolder, tablesFile, enginesFile, chunksFile>>

fleetVars == <<stores, nodeMode, fleetCmd, modeArg, selected, invoked, opFailed,
               logged, printed>>

engineVars == <<engineArg, engCmd, cfgSplitSize, splitHint, engState, cluster, ce,
                runNo, afterFirst, engCalls>>

localVars == <<segDir, lRange, lPc, lID, lSeen, lLastErr, lHist>>

removeVars == <<store, rmTaskCp, rmRun, rmHist>>

lsVars == <<dbExists, glTables, glOut, glHist>>

mainVars == <<flags, executed, usage, exitStatus>>

aggVars == <<aggRows, aggPc, aggPartial, aggFinal, aggResult>>

\* what each command leaves alone
destroyOnly == <<catalog, metas, segments, cfgVars, loopVars, lastErr,
                 importerConn, attemptVars, failVars>>
notDestroy == <<dumpVars, fleetVars, engineVars, localVars, removeVars, lsVars, mainVars, aggVars>>
notDump == <<destroyOnly, fleetVars, engineVars, localVars, removeVars, lsVars, mainVars, aggVars>>
notFleet == <<cpdb, destroyOnly, dumpVars, engineVars, localVars, removeVars, lsVars, mainVars, aggVars>>
notEngine == <<cpdb, catalog, metas, segments, cfgVars, loopVars, lastErr,
               attemptVars, failVars, dumpVars, fleetVars, localVars, removeVars, lsVars,
               mainVars, aggVars>>
notLocal == <<pc, ret, cpdb, destroyOnly, dumpVars, fleetVars, engineVars, removeVars, lsVars, mainVars, aggVars>>
notRemove == <<cpdb, cpdb0, catalog, segments, backendKind, loopVars, lastErr, importerConn,
               attemptVars, failVars, dumpVars, fleetVars, engineVars, localVars, lsVars,
               mainVars, aggVars>>
notLs == <<catalog, metas, segments, loopVars, lastErr, importerConn, attemptVars,
           failVars, dumpVars, fleetVars, engineVars, localVars, removeVars, mainVars, aggVars>>
notIgnore == <<destroyOnly, dumpVars, fleetVars, engineVars, localVars, removeVars,
               lsVars, mainVars, aggVars>>

vars == <<destroyVars, dumpVars, fleetVars, engineVars, localVars, removeVars, lsVars,
          mainVars, aggVars>>

----------------------------------------------------------------------------
(* Bounds and input sets *)

\* largest data engine ID a table checkpoint allocates in the model
MaxEngineID == 1
\* number of storage nodes of the fleet
NumStores == 3
\* how many times the operator runs an engine command on one argument
MaxRuns == 2
\* longest input of the SUM aggregation, besides the test's own input
MaxRows == 2
\* how many engines one run of checkpointErrorDestroy is followed through
MaxAttempts == 8

TableOrder == <<"db.t1", "db.t2">>
Tables == {TableOrder[i] : i \in DOMAIN TableOrder}
Targets == {"all", "db.t1"}
Backends == {"importer", "local", "tidb"}

\* engine ID ranges [MinEngineID, MaxEngineID] of a table checkpoint: the
\* index engine is -1, data engines count from 0; <<0, -1>> is empty
Ranges == {<<-1, hi>> : hi \in -1..MaxEngineID} \cup {<<0, -1>>}

\* engineID is an int32 (checkpoints' MinEngineID/MaxEngineID)
MaxInt32 == 2147483647
MinInt32 == -MaxInt32 - 1
Int32Inc(x) == IF x = MaxInt32 THEN MinInt32 ELSE x + 1

----------------------------------------------------------------------------
(* Errors: <<kind, table, engine>>; nil is NoErr *)

NoErr == <<"nil", "", 0>>
Err(kind, t, id) == <<kind, t, id>>
NoErrorRecorded == Err("NoErrorRecorded", "", 0)

\* errors.Trace keeps nil nil and an error that error
Trace(err) == err

----------------------------------------------------------------------------
(* Checkpoint store *)

AbsentRow == [present |-> FALSE, errored |-> FALSE,
              MinEngineID |-> 0, MaxEngineID |-> -1]
Rows == {AbsentRow} \cup
        {[present |-> TRUE, errored |-> e, MinEngineID |-> r[1], MaxEngineID |-> r[2]] :
            e \in BOOLEAN, r \in Ranges}

\* the engine IDs lo, lo+1, ..., hi, written so that no interval ends at MaxInt32
EnginesOf(lo, hi) ==
    IF lo > hi THEN {}
    ELSE IF lo = hi THEN {hi}
    ELSE {id \in lo..(hi - 1) : TRUE} \cup {hi}

\* the tables DestroyErrorCheckpoint acts on: in an error state and matching
ErrorTables(db, target) ==
    {t \in Tables : db[t].present /\ db[t].errored /\ (target = "all" \/ target = t)}

Snapshot(db, t) == [TableName |-> t, MinEngineID |-> db[t].MinEngineID,
                    MaxEngineID |-> db[t].MaxEngineID]

\* DestroyErrorCheckpoint's result: the pre-deletion snapshots, in table order
DestroyResult(db, target) ==
    LET hit == ErrorTables(db, target)
        names == SelectSeq(TableOrder, LAMBDA t : t \in hit)
    IN [i \in DOMAIN names |-> Snapshot(db, names[i])]

DestroyRows(db, target) ==
    [t \in Tables |-> IF t \in ErrorTables(db, target) THEN AbsentRow ELSE db[t]]

\* backend.MakeUUID: the UUID is a function of (table name, engine ID) alone
MakeUUID(t, id) == <<"uuid", t, id>>

AllEngines(tt) ==
    UNION {{<<tt[i].TableName, id>> : id \in EnginesOf(tt[i].MinEngineID, tt[i].MaxEngineID)} :
            i \in DOMAIN tt}

----------------------------------------------------------------------------
(* checkpointErrorDestroy *)

\* the engine loops' condition: engineID <= table.MaxEngineID
InRangeExclusive(id, max) == id < max
InRange(id, max) == id <= max

\* lastErr = err, in the error branch of a step
SetLastErrFirstOnly(old, err) == IF old = NoErr THEN err ELSE old
SetLastErr(old, err) == err

EngineErrKinds == {"UnsafeCloseEngine", "Cleanup", "File.Cleanup"}

Fail(err) == /\ lastFailed' = err
             /\ dropFailed' = (dropFailed \/ err[1] = "DropTable")
             /\ engineFailed' = (engineFailed \/ err[1] \in EngineErrKinds)

Return(err) == /\ ret' = Trace(err)
               /\ pc' = "done"

OpenCheckpointsDB ==
    /\ pc = "open"
    /\ \/ /\ pc' = "manager"
          /\ UNCHANGED <<ret, failVars>>
       \/ /\ Return(Err("OpenCheckpointsDB", "", 0))
          /\ Fail(Err("OpenCheckpointsDB", "", 0))
    /\ UNCHANGED notDestroy
    /\ UNCHANGED <<worldVars, cfgVars, loopVars, lastErr, importerConn, attemptVars>>

NewTiDBManager ==
    /\ pc = "manager"
    /\ \/ /\ pc' = "destroy"
          /\ UNCHANGED <<ret, failVars>>
       \/ /\ Return(Err("NewTiDBManager", "", 0))
          /\ Fail(Err("NewTiDBManager", "", 0))
    /\ UNCHANGED notDestroy
    /\ UNCHANGED <<worldVars, cfgVars, loopVars, lastErr, importerConn, attemptVars>>

\* cpdb.DestroyErrorCheckpoint and the error check after it
DestroyErrorCheckpoint ==
    /\ pc = "destroy"
    /\ \/ /\ ErrorTables(cpdb, tableName) # {}
          /\ targetTables' = DestroyResult(cpdb, tableName)
          /\ cpdb' = DestroyRows(cpdb, tableName)
          /\ pc' = "drop"
          /\ ti' = 1
          /\ UNCHANGED <<ret, failVars>>
       \/ /\ ErrorTables(cpdb, tableName) = {}
          /\ Return(NoErrorRecorded)
          /\ Fail(NoErrorRecorded)
          /\ UNCHANGED <<targetTables, cpdb, ti>>
       \/ /\ Return(Err("DestroyErrorCheckpoint", "", 0))
          /\ Fail(Err("DestroyErrorCheckpoint", "", 0))
          /\ UNCHANGED <<targetTables, cpdb, ti>>
    /\ UNCHANGED notDestroy
    /\ UNCHANGED <<catalog, metas, segments, cfgVars, engineID, lastErr,
                   importerConn, attemptVars>>

\* the table handed to target.DropTable: table.TableName
DroppedTableByOrder(tt, i) == TableOrder[i]
DroppedTable(tt, i) == tt[i].TableName

\* target.DropTable for one table of the first loop
DropTableAbortOnError ==
    /\ pc = "drop"
    /\ ti <= Len(targetTables)
    /\ LET t == targetTables[ti].TableName
           e == Err("DropTable", t, 0)
       IN /\ dropAttempted' = dropAttempted \cup {t}
          /\ \/ /\ catalog' = catalog \ {t}
                /\ ti' = ti + 1
                /\ UNCHANGED <<lastErr, failVars, pc, ret>>
             \/ /\ lastErr' = SetLastErr(lastErr, e)
                /\ Fail(e)
                /\ Return(e)
                /\ UNCHANGED <<catalog, ti>>
    /\ UNCHANGED notDestroy
    /\ UNCHANGED <<cpdb, metas, segments, cfgVars, targetTables, engineID,
                   importerConn, closeAttempted, closeOK, cleanupAttempted,
                   localAttempted, metasAttempted>>

DropTable ==
    /\ pc = "drop"
    /\ ti <= Len(targetTables)
    /\ LET t == DroppedTable(targetTables, ti)
           e == Err("DropTable", t, 0)
       IN /\ dropAttempted' = dropAttempted \cup {t}
          /\ \/ /\ catalog' = catalog \ {t}
                /\ UNCHANGED <<lastErr, failVars>>
             \/ /\ lastErr' = SetLastErr(lastErr, e)
                /\ Fail(e)
                /\ UNCHANGED catalog
    /\ ti' = ti + 1
    /\ UNCHANGED notDestroy
    /\ UNCHANGED <<pc, ret, cpdb, metas, segments, cfgVars, targetTables, engineID,
                   importerConn, closeAttempted, closeOK, cleanupAttempted,
                   localAttempted, metasAttempted>>

DropLoopExit ==
    /\ pc = "drop"
    /\ ti > Len(targetTables)
    /\ pc' = "importerIf"
    /\ UNCHANGED notDestroy
    /\ UNCHANGED <<ret, worldVars, cfgVars, loopVars, lastErr, importerConn,
                   attemptVars, failVars>>

\* if cfg.TikvImporter.Backend == "importer" { importer.NewImporter ... }
NewImporter ==
    /\ pc = "importerIf"
    /\ \/ /\ backendKind = "importer"
          /\ \/ /\ importerConn' = "open"
                /\ pc' = "importerTable"
                /\ ti' = 1
                /\ UNCHANGED <<ret, failVars>>
             \/ /\ importerConn' = "failed"
                /\ Return(Err("NewImporter", "", 0))
                /\ Fail(Err("NewImporter", "", 0))
                /\ UNCHANGED ti
       \/ /\ backendKind # "importer"
          /\ pc' = "localIf"
          /\ UNCHANGED <<ret, failVars, ti, importerConn>>
    /\ UNCHANGED notDestroy
    /\ UNCHANGED <<worldVars, cfgVars, targetTables, engineID, lastErr, attemptVars>>

\* the engine loops' init statement: engineID := table.MinEngineID
FirstEngineData(table) == 0
FirstEngine(table) == table.MinEngineID

\* for _, table := range targetTables { for engineID := table.MinEngineID; ...
ImporterTable ==
    /\ pc = "importerTable"
    /\ \/ /\ ti <= Len(targetTables)
          /\ engineID' = FirstEngine(targetTables[ti])
          /\ pc' = "importerEngine"
       \/ /\ ti > Len(targetTables)
          /\ pc' = "localIf"
          /\ UNCHANGED engineID
    /\ UNCHANGED notDestroy
    /\ UNCHANGED <<ret, worldVars, cfgVars, targetTables, ti, lastErr, importerConn,
                   attemptVars, failVars>>

\* one iteration of the importer engine loop: UnsafeCloseEngine, then Cleanup
ImporterEngineAbortOnError ==
    /\ pc = "importerEngine"
    /\ InRange(engineID, targetTables[ti].MaxEngineID)
    /\ Cardinality(closeAttempted) < MaxAttempts
    /\ LET t == targetTables[ti].TableName
           eng == <<t, engineID>>
           closeErr == Err("UnsafeCloseEngine", t, engineID)
           cleanErr == Err("Cleanup", t, engineID)
       IN /\ closeAttempted' = closeAttempted \cup {eng}
          /\ \/ /\ lastErr' = SetLastErr(lastErr, closeErr)
                /\ Fail(closeErr)
                /\ Return(closeErr)
                /\ UNCHANGED <<closeOK, cleanupAttempted, engineID>>
             \/ /\ closeOK' = closeOK \cup {eng}
                /\ cleanupAttempted' = cleanupAttempted \cup {eng}
                /\ engineID' = Int32Inc(engineID)
                /\ UNCHANGED <<pc, ret>>
                /\ \/ /\ lastErr' = SetLastErr(lastErr, cleanErr)
                      /\ Fail(cleanErr)
                   \/ UNCHANGED <<lastErr, failVars>>
    /\ UNCHANGED notDestroy
    /\ UNCHANGED <<worldVars, cfgVars, targetTables, ti, importerConn,
                   dropAttempted, localAttempted, metasAttempted>>

ImporterEngine ==
    /\ pc = "importerEngine"
    /\ InRange(engineID, targetTables[ti].MaxEngineID)
    /\ Cardinality(closeAttempted) < MaxAttempts
    /\ LET t == targetTables[ti].TableName
           eng == <<t, engineID>>
           closeErr == Err("UnsafeCloseEngine", t, engineID)
           cleanErr == Err("Cleanup", t, engineID)
       IN /\ closeAttempted' = closeAttempted \cup {eng}
          /\ \/ /\ lastErr' = SetLastErr(lastErr, closeErr)
                /\ Fail(closeErr)
                /\ UNCHANGED <<closeOK, cleanupAttempted>>
             \/ /\ closeOK' = closeOK \cup {eng}
                /\ cleanupAttempted' = cleanupAttempted \cup {eng}
                /\ \/ /\ lastErr' = SetLastErr(lastErr, cleanErr)
                      /\ Fail(cleanErr)
                   \/ UNCHANGED <<lastErr, failVars>>
    /\ engineID' = Int32Inc(engineID)
    /\ UNCHANGED notDestroy
    /\ UNCHANGED <<pc, ret, worldVars, cfgVars, targetTables, ti, importerConn,
                   dropAttempted, localAttempted, metasAttempted>>

ImporterEngineExit ==
    /\ pc = "importerEngine"
    /\ ~InRange(engineID, targetTables[ti].MaxEngineID)
    /\ ti' = ti + 1
    /\ pc' = "importerTable"
    /\ UNCHANGED notDestroy
    /\ UNCHANGED <<ret, worldVars, cfgVars, targetTables, engineID, lastErr,
                   importerConn, attemptVars, failVars>>

\* if cfg.TikvImporter.Backend == "local" {
LocalIf ==
    /\ pc = "localIf"
    /\ \/ /\ backendKind = "local"
          /\ pc' = "localTable"
          /\ ti' = 1
       \/ /\ backendKind # "local"
          /\ pc' = "metas"
          /\ UNCHANGED ti
    /\ UNCHANGED notDestroy
    /\ UNCHANGED <<ret, worldVars, cfgVars, targetTables, engineID, lastErr,
                   importerConn, attemptVars, failVars>>

LocalTable ==
    /\ pc = "localTable"
    /\ \/ /\ ti <= Len(targetTables)
          /\ engineID' = FirstEngine(targetTables[ti])
          /\ pc' = "localEngine"
       \/ /\ ti > Len(targetTables)
          /\ pc' = "metas"
          /\ UNCHANGED engineID
    /\ UNCHANGED notDestroy
    /\ UNCHANGED <<ret, worldVars, cfgVars, targetTables, ti, lastErr, importerConn,
                   attemptVars, failVars>>

\* the UUID the local loop addresses the segment of (table, engineID) by
LocalUUIDOfMinEngine(t, id) == MakeUUID(t, targetTables[ti].MinEngineID)
LocalUUID(t, id) == MakeUUID(t, id)

\* one iteration of the local engine loop: MakeUUID, local.File.Cleanup
LocalEngine ==
    /\ pc = "localEngine"
    /\ InRange(engineID, targetTables[ti].MaxEngineID)
    /\ Cardinality(localAttempted) < MaxAttempts
    /\ LET t == targetTables[ti].TableName
           eID == LocalUUID(t, engineID)
           e == Err("File.Cleanup", t, engineID)
       IN /\ localAttempted' = localAttempted \cup {eID}
          /\ \/ /\ segments' = segments \ {eID}
                /\ UNCHANGED <<lastErr, failVars>>
             \/ /\ lastErr' = SetLastErr(lastErr, e)
                /\ Fail(e)
                /\ UNCHANGED segments
    /\ engineID' = Int32Inc(engineID)
    /\ UNCHANGED notDestroy
    /\ UNCHANGED <<pc, ret, cpdb, catalog, metas, cfgVars, targetTables, ti,
                   importerConn, dropAttempted, closeAttempted, closeOK,
                   cleanupAttempted, metasAttempted>>

LocalEngineExit ==
    /\ pc = "localEngine"
    /\ ~InRange(engineID, targetTables[ti].MaxEngineID)
    /\ ti' = ti + 1
    /\ pc' = "localTable"
    /\ UNCHANGED notDestroy
    /\ UNCHANGED <<ret, worldVars, cfgVars, targetTables, engineID, lastErr,
                   importerConn, attemptVars, failVars>>

----------------------------------------------------------------------------
(* The local engine loop run by two processes at once; File.Cleanup step by   *)
(* step, as a recursive removal of the segment directory                      *)

Procs == {"p1", "p2"}
LocalTableName == "db.t1"
SegmentFiles == {"sst"}
NoSegment == [exists |-> FALSE, files |-> {}]
LocalErr(id) == Err("File.Cleanup", LocalTableName, id)

\* the loop head: the next engine's File.Cleanup starts, or the loops are over
LocalLoop(p) ==
    /\ lPc[p] = "loop"
    /\ lPc' = [lPc EXCEPT ![p] = IF InRange(lID[p], lRange[2]) THEN "remove" ELSE "done"]
    /\ UNCHANGED <<segDir, lRange, lID, lSeen, lLastErr, lHist, notLocal>>

\* File.Cleanup returned err to the loop body: lastErr, engineID++
CleanupReturns(p, err) ==
    /\ lLastErr' = [lLastErr EXCEPT ![p] = IF err # NoErr THEN SetLastErr(@, err) ELSE @]
    /\ lID' = [lID EXCEPT ![p] = Int32Inc(@)]
    /\ lPc' = [lPc EXCEPT ![p] = "loop"]
    /\ lSeen' = [lSeen EXCEPT ![p] = {}]

IOFault(p) ==
    /\ CleanupReturns(p, LocalErr(lID[p]))
    /\ lHist' = [lHist EXCEPT ![p].fault = TRUE]
    /\ UNCHANGED segDir

\* the removal's first attempt: an absent path is a success, an empty
\* directory is removed, a directory with entries has to be read
RemoveFirst(p) ==
    /\ lPc[p] = "remove"
    /\ LET u == LocalUUID(LocalTableName, lID[p])
       IN \/ /\ ~segDir[u].exists
             /\ CleanupReturns(p, NoErr)
             /\ lHist' = [lHist EXCEPT ![p].absent = TRUE]
             /\ UNCHANGED segDir
          \/ /\ segDir[u].exists /\ segDir[u].files = {}
             /\ segDir' = [segDir EXCEPT ![u] = NoSegment]
             /\ CleanupReturns(p, NoErr)
             /\ UNCHANGED lHist
          \/ /\ segDir[u].exists /\ segDir[u].files # {}
             /\ lPc' = [lPc EXCEPT ![p] = "read"]
             /\ UNCHANGED <<segDir, lID, lSeen, lLastErr, lHist>>
          \/ /\ segDir[u].exists
             /\ IOFault(p)
    /\ UNCHANGED <<lRange, notLocal>>

\* the directory's entries are read; a directory gone meanwhile is a success
ReadDir(p) ==
    /\ lPc[p] = "read"
    /\ LET u == LocalUUID(LocalTableName, lID[p])
       IN \/ /\ ~segDir[u].exists
             /\ CleanupReturns(p, NoErr)
             /\ lHist' = [lHist EXCEPT ![p].raced = TRUE]
             /\ UNCHANGED segDir
          \/ /\ segDir[u].exists
             /\ lSeen' = [lSeen EXCEPT ![p] = segDir[u].files]
             /\ lPc' = [lPc EXCEPT ![p] = "unlink"]
             /\ UNCHANGED <<segDir, lID, lLastErr, lHist>>
          \/ /\ segDir[u].exists
             /\ IOFault(p)
    /\ UNCHANGED <<lRange, notLocal>>

\* one entry is removed; an entry gone meanwhile is skipped
Unlink(p) ==
    /\ lPc[p] = "unlink"
    /\ LET u == LocalUUID(LocalTableName, lID[p])
       IN \/ /\ lSeen[p] = {}
             /\ lPc' = [lPc EXCEPT ![p] = "rmdir"]
             /\ UNCHANGED <<segDir, lID, lSeen, lLastErr, lHist>>
          \/ \E f \in lSeen[p] :
                /\ segDir' = [segDir EXCEPT ![u].files = @ \ {f}]
                /\ lSeen' = [lSeen EXCEPT ![p] = @ \ {f}]
                /\ lHist' = [lHist EXCEPT ![p].raced = @ \/ f \notin segDir[u].files]
                /\ UNCHANGED <<lPc, lID, lLastErr>>
          \/ /\ lSeen[p] # {}
             /\ IOFault(p)
    /\ UNCHANGED <<lRange, notLocal>>

\* the emptied directory is removed; a directory gone meanwhile is a success
Rmdir(p) ==
    /\ lPc[p] = "rmdir"
    /\ LET u == LocalUUID(LocalTableName, lID[p])
       IN \/ /\ ~segDir[u].exists
             /\ CleanupReturns(p, NoErr)
             /\ lHist' = [lHist EXCEPT ![p].raced = TRUE]
             /\ UNCHANGED segDir
          \/ /\ segDir[u].exists /\ segDir[u].files = {}
             /\ segDir' = [segDir EXCEPT ![u] = NoSegment]
             /\ CleanupReturns(p, NoErr)
             /\ UNCHANGED lHist
          \/ /\ segDir[u].exists
             /\ IOFault(p)
    /\ UNCHANGED <<lRange, notLocal>>

----------------------------------------------------------------------------
(* cleanupMetas *)

MetaErr(step) == Err(step, "", 0)

\* restore.RemoveTableMetaByTableName: the rows of one table, or of all for ""
RemoveTableMeta(m, name) ==
    [m EXCEPT !.rows = IF name = "" THEN {} ELSE m.rows \ {name}]

\* restore.MaybeCleanupAllMetas: drops the metadata schema unless the table
\* meta table still holds rows
MaybeCleanupAllMetas(m, tableMetaExist) ==
    IF tableMetaExist /\ m.rows # {}
    THEN m
    ELSE [tableMeta |-> FALSE, taskMeta |-> FALSE, rows |-> {}]

\* every outcome [err, metas] of cleanupMetas(ctx, cfg, tableName) on metas m
CleanupMetas(m, name) ==
    LET tn == IF name = "all" THEN "" ELSE name
        tableMetaExist == m.tableMeta
        m1 == IF tableMetaExist THEN RemoveTableMeta(m, tn) ELSE m
    IN {[err |-> MetaErr("DBFromConfig"), metas |-> m],
        [err |-> MetaErr("TableExists"), metas |-> m]}
       \cup (IF tableMetaExist
             THEN {[err |-> MetaErr("RemoveTableMetaByTableName"), metas |-> m]}
             ELSE {})
       \cup {[err |-> MetaErr("TableExists"), metas |-> m1]}
       \cup (IF ~m1.taskMeta
             THEN {[err |-> NoErr, metas |-> m1]}
             ELSE {[err |-> MetaErr("MaybeCleanupAllMetas"), metas |-> m1],
                   [err |-> NoErr, metas |-> MaybeCleanupAllMetas(m1, tableMetaExist)]})

\* if lastErr == nil { lastErr = cleanupMetas(...) }
ShouldCleanupMetasAlways(e) == TRUE
ShouldCleanupMetas(e) == e = NoErr

\* the tail of checkpointErrorDestroy: cleanupMetas and the return
CleanupMetasAndReturn ==
    /\ pc = "metas"
    /\ \/ /\ ShouldCleanupMetas(lastErr)
          /\ metasAttempted' = TRUE
          /\ \E r \in CleanupMetas(metas, tableName) :
                /\ lastErr' = r.err
                /\ metas' = r.metas
                /\ IF r.err = NoErr THEN UNCHANGED failVars ELSE Fail(r.err)
                /\ Return(r.err)
       \/ /\ ~ShouldCleanupMetas(lastErr)
          /\ Return(lastErr)
          /\ UNCHANGED <<lastErr, metas, metasAttempted, failVars>>
    /\ UNCHANGED notDestroy
    /\ UNCHANGED <<cpdb, catalog, segments, cfgVars, loopVars, importerConn,
                   dropAttempted, closeAttempted, closeOK, cleanupAttempted,
                   localAttempted>>

----------------------------------------------------------------------------
(* checkpointDump *)

TablesFileName == "tables.csv"
EnginesFileName == "engines.csv"
ChunksFileName == "chunks.csv"
DumpFileNames == {TablesFileName, EnginesFileName, ChunksFileName}

NoFile == [exists |-> FALSE, data |-> <<>>]
NilHandle == [name |-> "", off |-> 0]

RECURSIVE Flatten(_)
Flatten(ss) == IF ss = <<>> THEN <<>> ELSE Head(ss) \o Flatten(Tail(ss))

IDSeq(lo, hi) == [i \in 1..(hi - lo + 1) |-> lo + i - 1]
PresentTables(db) == SelectSeq(TableOrder, LAMBDA t : db[t].present)

\* cpdb.DumpTables: a header, then one line per table checkpoint
TablesDump(db) ==
    <<"table_name,status", "\n">> \o
    Flatten([i \in DOMAIN PresentTables(db) |->
               LET t == PresentTables(db)[i]
               IN <<t, IF db[t].errored THEN "error" ELSE "ok", "\n">>])

\* cpdb.DumpEngines: a header, then one line per engine checkpoint
EnginesDump(db) ==
    <<"table_name,engine_id", "\n">> \o
    Flatten([i \in DOMAIN PresentTables(db) |->
               LET t == PresentTables(db)[i]
                   ids == IDSeq(db[t].MinEngineID, db[t].MaxEngineID)
               IN Flatten([j \in DOMAIN ids |-> <<t, ToString(ids[j]), "\n">>])])

\* cpdb.DumpChunks: a header, then one line per chunk of each data engine
ChunksDump(db) ==
    <<"table_name,engine_id,path,offset", "\n">> \o
    Flatten([i \in DOMAIN PresentTables(db) |->
               LET t == PresentTables(db)[i]
                   ids == IDSeq(0, db[t].MaxEngineID)
               IN Flatten([j \in DOMAIN ids |->
                             <<t, ToString(ids[j]), "chunk", "0", "\n">>])])

\* os.Create: the file is created or truncated, the handle starts at offset 0
Create(dir, name) == [dir EXCEPT ![name] = [exists |-> TRUE, data |-> <<>>]]
Handle(name) == [name |-> name, off |-> 0]

\* a write of data through handle h: at the handle's own offset
WriteAt(dir, h, data) ==
    LET old == dir[h.name].data
        end == h.off + Len(data)
    IN [dir EXCEPT ![h.name].data =
            SubSeq(old, 1, h.off) \o data \o SubSeq(old, end + 1, Len(old))]

DumpErr(step) == Err(step, "", 0)

DumpOpenCheckpointsDB ==
    /\ pc = "dump.open"
    /\ \/ /\ pc' = "dump.mkdir"
          /\ UNCHANGED ret
       \/ Return(DumpErr("OpenCheckpointsDB"))
    /\ UNCHANGED <<cpdb, dumpVars, notDump>>

\* os.MkdirAll(dumpFolder, 0o755)
MkdirAll ==
    /\ pc = "dump.mkdir"
    /\ \/ /\ pc' = "dump.createTables"
          /\ UNCHANGED ret
       \/ Return(DumpErr("MkdirAll"))
    /\ UNCHANGED <<cpdb, dumpVars, notDump>>

\* tablesFile, err := os.Create(tablesFileName)
CreateTablesFile ==
    /\ pc = "dump.createTables"
    /\ \/ /\ dumpFolder' = Create(dumpFolder, TablesFileName)
          /\ tablesFile' = Handle(TablesFileName)
          /\ pc' = "dump.createEngines"
          /\ UNCHANGED ret
       \/ /\ Return(DumpErr("failed to create tables.csv"))
          /\ UNCHANGED <<dumpFolder, tablesFile>>
    /\ UNCHANGED <<cpdb, enginesFile, chunksFile, notDump>>

\* the path handed to os.Create for enginesFile
EnginesCreatePath == TablesFileName

\* enginesFile, err := os.Create(tablesFileName)
CreateEnginesFile ==
    /\ pc = "dump.createEngines"
    /\ \/ /\ dumpFolder' = Create(dumpFolder, EnginesCreatePath)
          /\ enginesFile' = Handle(EnginesCreatePath)
          /\ pc' = "dump.createChunks"
          /\ UNCHANGED ret
       \/ /\ Return(DumpErr("failed to create engines.csv"))
          /\ UNCHANGED <<dumpFolder, enginesFile>>
    /\ UNCHANGED <<cpdb, tablesFile, chunksFile, notDump>>

\* chunksFile, err := os.Create(chunksFileName)
CreateChunksFile ==
    /\ pc = "dump.createChunks"
    /\ \/ /\ dumpFolder' = Create(dumpFolder, ChunksFileName)
          /\ chunksFile' = Handle(ChunksFileName)
          /\ pc' = "dump.tables"
          /\ UNCHANGED ret
       \/ /\ Return(DumpErr("failed to create chunks.csv"))
          /\ UNCHANGED <<dumpFolder, chunksFile>>
    /\ UNCHANGED <<cpdb, tablesFile, enginesFile, notDump>>

\* a dump streams data to its sink h (hNext is the handle afterwards): all of
\* it, or a prefix of it and an error
DumpTo(h, hNext, data, step, next) ==
    \/ /\ dumpFolder' = WriteAt(dumpFolder, h, data)
       /\ hNext = [h EXCEPT !.off = @ + Len(data)]
       /\ pc' = next
       /\ ret' = IF next = "done" THEN NoErr ELSE ret
    \/ \E k \in 0..(Len(data) - 1) :
          /\ dumpFolder' = WriteAt(dumpFolder, h, SubSeq(data, 1, k))
          /\ hNext = [h EXCEPT !.off = @ + k]
          /\ Return(DumpErr(step))

\* cpdb.DumpTables(ctx, tablesFile)
DumpTables ==
    /\ pc = "dump.tables"
    /\ DumpTo(tablesFile, tablesFile', TablesDump(cpdb), "DumpTables", "dump.engines")
    /\ UNCHANGED <<cpdb, enginesFile, chunksFile, notDump>>

\* cpdb.DumpEngines(ctx, enginesFile)
DumpEngines ==
    /\ pc = "dump.engines"
    /\ DumpTo(enginesFile, enginesFile', EnginesDump(cpdb), "DumpEngines", "dump.chunks")
    /\ UNCHANGED <<cpdb, tablesFile, chunksFile, notDump>>

\* cpdb.DumpChunks(ctx, chunksFile) and the return
DumpChunks ==
    /\ pc = "dump.chunks"
    /\ DumpTo(chunksFile, chunksFile', ChunksDump(cpdb), "DumpChunks", "done")
    /\ UNCHANGED <<cpdb, tablesFile, enginesFile, notDump>>

----------------------------------------------------------------------------
(* compactCluster, switchMode, fetchMode over tikv.ForAllStores *)

Nodes == 1..NumStores
StoreStates == {"Up", "Disconnected", "Tombstone", "Offline"}
StoreStateDisconnected == "Disconnected"
ImportMode == "import"
NormalMode == "normal"
FleetCmds == {"compact", "switch-mode", "fetch-mode"}
ModeArgs == {ImportMode, NormalMode, "imprt"}

FleetErr(step) == Err(step, "", 0)

\* the state handed to ForAllStores
ExcludeStateUp(cmd) == "Up"
ExcludeState(cmd) == StoreStateDisconnected

\* what the per-node closure returns when its RPC returned rpcErr
ClosureResultPropagate(cmd, rpcErr) == rpcErr
ClosureResult(cmd, rpcErr) ==
    CASE cmd = "compact" -> rpcErr
      [] cmd = "switch-mode" -> rpcErr
      [] cmd = "fetch-mode" -> NoErr

\* compactCluster
CompactCluster ==
    /\ pc = "fleet.start"
    /\ fleetCmd = "compact"
    /\ pc' = "fleet.discover"
    /\ UNCHANGED <<ret, fleetVars, notFleet>>

\* switchMode: the mode string is checked before ForAllStores is called
SwitchMode ==
    /\ pc = "fleet.start"
    /\ fleetCmd = "switch-mode"
    /\ IF modeArg \in {ImportMode, NormalMode}
       THEN pc' = "fleet.discover" /\ UNCHANGED ret
       ELSE Return(FleetErr("invalid mode"))
    /\ UNCHANGED <<fleetVars, notFleet>>

\* fetchMode
FetchMode ==
    /\ pc = "fleet.start"
    /\ fleetCmd = "fetch-mode"
    /\ pc' = "fleet.discover"
    /\ UNCHANGED <<ret, fleetVars, notFleet>>

\* tikv.ForAllStores: discovery, and the exclusion of the nodes in excludeState
Discover ==
    /\ pc = "fleet.discover"
    /\ \/ /\ selected' = {n \in Nodes : stores[n] # ExcludeState(fleetCmd)}
          /\ pc' = "fleet.dispatch"
          /\ UNCHANGED ret
       \/ /\ Return(FleetErr("discovery"))
          /\ UNCHANGED selected
    /\ UNCHANGED <<stores, nodeMode, fleetCmd, modeArg, invoked, opFailed, logged,
                   printed, notFleet>>

\* tikv.ForAllStores: the operation on one selected node, in any order; the
\* node's RPC succeeds or fails, and an error the closure returns is logged
NodeOp(n) ==
    /\ pc = "fleet.dispatch"
    /\ n \in selected \ invoked
    /\ invoked' = invoked \cup {n}
    /\ \E rpcErr \in {NoErr, FleetErr("rpc")} :
          /\ opFailed' = IF rpcErr = NoErr THEN opFailed ELSE opFailed \cup {n}
          /\ nodeMode' = IF fleetCmd = "switch-mode" /\ rpcErr = NoErr
                         THEN [nodeMode EXCEPT ![n] = modeArg]
                         ELSE nodeMode
          /\ printed' = IF fleetCmd = "fetch-mode"
                        THEN [printed EXCEPT ![n] = IF rpcErr = NoErr
                                                     THEN nodeMode[n] \o " mode"
                                                     ELSE "Error"]
                        ELSE printed
          /\ logged' = IF ClosureResult(fleetCmd, rpcErr) = NoErr
                       THEN logged
                       ELSE logged \cup {n}
    /\ UNCHANGED <<pc, ret, stores, fleetCmd, modeArg, selected, notFleet>>

\* tikv.ForAllStores: every selected node was handled; the call succeeds
FleetReturn ==
    /\ pc = "fleet.dispatch"
    /\ selected \subseteq invoked
    /\ Return(NoErr)
    /\ UNCHANGED <<fleetVars, notFleet>>

----------------------------------------------------------------------------
(* importEngine, cleanupEngine, unsafeCloseEngine *)

\* strings are sequences of one-character strings
Digits == <<"0", "1", "2", "3", "4", "5", "6", "7", "8", "9">>
DigitSet == {Digits[i] : i \in DOMAIN Digits}
DigitVal(c) == (CHOOSE i \in DOMAIN Digits : Digits[i] = c) - 1
HexDigitSet == DigitSet \cup {"a", "b", "c", "d", "e", "f"}

\* strings.LastIndexByte(s, c), 0-based, -1 when c does not occur
LastIndexByte(s, c) ==
    IF \E i \in DOMAIN s : s[i] = c
    THEN (CHOOSE i \in DOMAIN s : s[i] = c /\ \A j \in DOMAIN s : s[j] = c => j <= i) - 1
    ELSE -1

RECURSIVE DigitsValue(_)
DigitsValue(s) ==
    IF s = <<>> THEN 0 ELSE 10 * DigitsValue(SubSeq(s, 1, Len(s) - 1)) + DigitVal(s[Len(s)])

\* strconv.Atoi: an optional sign, then one or more decimal digits
Atoi(s) ==
    LET signed == s # <<>> /\ s[1] \in {"+", "-"}
        body == IF signed THEN Tail(s) ELSE s
    IN IF body = <<>> \/ \E i \in DOMAIN body : body[i] \notin DigitSet
       THEN [err |-> Err("Atoi", "", 0), val |-> 0]
       ELSE [err |-> NoErr,
             val |-> IF signed /\ s[1] = "-" THEN -DigitsValue(body) ELSE DigitsValue(body)]

\* uuid.Parse, on UUIDs abbreviated to the length of NilUUIDText: the text
\* must have that length and hold hexadecimal digits only
NilUUIDText == <<"0", "0">>
ParseUUID(s) ==
    IF Len(s) = Len(NilUUIDText) /\ \A i \in DOMAIN s : s[i] \in HexDigitSet
    THEN [err |-> NoErr, val |-> <<"uuid", s>>]
    ELSE [err |-> Err("uuid.Parse", "", 0), val |-> <<"uuid", <<>>>>]

NoEngine == <<"uuid">>

\* unsafeCloseEngine up to the backend call: which engine the argument names,
\* or the parse error
EngineOfArgLenient(engine) ==
    LET index == LastIndexByte(engine, ":")
    IN IF index >= 0
       THEN [err |-> NoErr,
             uuid |-> MakeUUID(SubSeq(engine, 1, index),
                               Atoi(SubSeq(engine, index + 2, Len(engine))).val)]
       ELSE [err |-> NoErr, uuid |-> ParseUUID(engine).val]
EngineOfArg(engine) ==
    LET index == LastIndexByte(engine, ":")
    IN IF index >= 0
       THEN LET name == SubSeq(engine, 1, index)
                id == Atoi(SubSeq(engine, index + 2, Len(engine)))
            IN IF id.err # NoErr
               THEN [err |-> id.err, uuid |-> NoEngine]
               ELSE [err |-> NoErr, uuid |-> MakeUUID(name, id.val)]
       ELSE LET u == ParseUUID(engine)
            IN IF u.err # NoErr
               THEN [err |-> u.err, uuid |-> NoEngine]
               ELSE [err |-> NoErr, uuid |-> u.val]

EngineArgs == {<<"t", ":", "0">>, <<"t", ":", "-", "1">>, <<"a", ":", "t", ":", "1">>,
               <<"t", ":", "x">>, <<"t", ":">>, <<"0", "a">>, <<"z", "z">>}
EngineKeys == {EngineOfArg(a).uuid : a \in EngineArgs} \ {NoEngine}

\* config.SplitRegionSize, in MiB
SplitRegionSize == 96
RegionSplitSize(cfgSize) == IF cfgSize = 0 THEN SplitRegionSize ELSE cfgSize

\* the key-value pairs an engine holds
EngineData(u) == {<<"k1", u>>, <<"k2", u>>}

KeysOf(kvs) == {kv[1] : kv \in kvs}

\* Import's ingest of kvs into the cluster data c: a pair replaces whatever
\* the cluster holds under its key
IngestAppend(c, kvs) == c (+) SetToBag(kvs)
Ingest(c, kvs) ==
    LET keep == {e \in DOMAIN c : e[1] \notin KeysOf(kvs)}
    IN [e \in keep \cup kvs |-> IF e \in kvs THEN 1 ELSE c[e]]

\* UnsafeCloseEngine: every engine that still exists is forced to Closed
ForceClose(st) == IF st = "CleanedUp" THEN st ELSE "Closed"

EngErr(step) == Err(step, "", 0)

\* importer.NewImporter, first statement of importEngine and cleanupEngine
EngineNewImporter ==
    /\ pc = "engine.start"
    /\ \/ /\ importerConn' = "open"
          /\ pc' = "engine.close"
          /\ UNCHANGED ret
       \/ /\ importerConn' = "failed"
          /\ Return(EngErr("NewImporter"))
    /\ UNCHANGED <<engineVars, notEngine>>

\* unsafeCloseEngine and the error check after it
UnsafeCloseEngineIgnoringErr ==
    /\ pc = "engine.close"
    /\ LET e == EngineOfArg(engineArg)
       IN IF e.err # NoErr
          THEN /\ Return(e.err)
               /\ UNCHANGED <<engState, ce, engCalls>>
          ELSE \/ /\ engCalls' = Append(engCalls, "close")
                  /\ engState' = [engState EXCEPT ![e.uuid] = ForceClose(@)]
                  /\ ce' = e.uuid
                  /\ pc' = IF engCmd = "import-engine" THEN "engine.import"
                           ELSE "engine.cleanup"
                  /\ UNCHANGED ret
               \/ /\ engCalls' = Append(engCalls, "close.failed")
                  /\ ce' = e.uuid
                  /\ pc' = IF engCmd = "import-engine" THEN "engine.import"
                           ELSE "engine.cleanup"
                  /\ UNCHANGED <<ret, engState>>
    /\ UNCHANGED <<engineArg, engCmd, cfgSplitSize, splitHint, cluster, runNo,
                   afterFirst, importerConn, notEngine>>
UnsafeCloseEngine ==
    /\ pc = "engine.close"
    /\ LET e == EngineOfArg(engineArg)
       IN IF e.err # NoErr
          THEN /\ Return(e.err)
               /\ UNCHANGED <<engState, ce, engCalls>>
          ELSE \/ /\ engCalls' = Append(engCalls, "close")
                  /\ engState' = [engState EXCEPT ![e.uuid] = ForceClose(@)]
                  /\ ce' = e.uuid
                  /\ pc' = IF engCmd = "import-engine" THEN "engine.import"
                           ELSE "engine.cleanup"
                  /\ UNCHANGED ret
               \/ /\ engCalls' = Append(engCalls, "close.failed")
                  /\ Return(EngErr("UnsafeCloseEngine"))
                  /\ UNCHANGED <<engState, ce>>
    /\ UNCHANGED <<engineArg, engCmd, cfgSplitSize, splitHint, cluster, runNo,
                   afterFirst, importerConn, notEngine>>

\* the rest of importEngine: the split size and ce.Import
Import ==
    /\ pc = "engine.import"
    /\ splitHint' = RegionSplitSize(cfgSplitSize)
    /\ engCalls' = Append(engCalls, "import")
    /\ IF engState[ce] = "CleanedUp"
       THEN /\ Return(NoErr)
            /\ UNCHANGED <<engState, cluster, afterFirst>>
       ELSE \/ /\ cluster' = Ingest(cluster, EngineData(ce))
               /\ engState' = [engState EXCEPT ![ce] = "Imported"]
               /\ afterFirst' = IF afterFirst.set THEN afterFirst
                                ELSE [set |-> TRUE, data |-> cluster']
               /\ Return(NoErr)
            \/ \E part \in SUBSET EngineData(ce) :
                  /\ part # EngineData(ce)
                  /\ cluster' = Ingest(cluster, part)
                  /\ engState' = [engState EXCEPT ![ce] = "Importing"]
                  /\ Return(EngErr("Import"))
                  /\ UNCHANGED afterFirst
    /\ UNCHANGED <<engineArg, engCmd, cfgSplitSize, ce, runNo, importerConn, notEngine>>

\* the rest of cleanupEngine: ce.Cleanup
Cleanup ==
    /\ pc = "engine.cleanup"
    /\ engCalls' = Append(engCalls, "cleanup")
    /\ \/ /\ engState' = [engState EXCEPT ![ce] = "CleanedUp"]
          /\ Return(NoErr)
       \/ /\ Return(EngErr("Cleanup"))
          /\ UNCHANGED engState
    /\ UNCHANGED <<engineArg, engCmd, cfgSplitSize, splitHint, cluster, ce, runNo,
                   afterFirst, importerConn, notEngine>>

\* the operator runs the same command on the same argument again
RunAgain ==
    /\ pc = "done"
    /\ engineArg \in EngineArgs
    /\ runNo < MaxRuns
    /\ runNo' = runNo + 1
    /\ pc' = "engine.start"
    /\ ret' = NoErr
    /\ ce' = NoEngine
    /\ engCalls' = <<>>
    /\ importerConn' = "none"
    /\ UNCHANGED <<engineArg, engCmd, cfgSplitSize, splitHint, engState, cluster,
                   afterFirst, notEngine>>

----------------------------------------------------------------------------
(* checkpointRemove *)

EmptyStore == [task |-> [exists |-> FALSE, TaskID |-> 0],
               tables |-> {}, engines |-> {}, chunks |-> {}]

\* the rows of one table at the table, engine and chunk levels
RowsOf(st, t) == [tables |-> st.tables \cap {t},
                  engines |-> {e \in st.engines : e[1] = t},
                  chunks |-> {c \in st.chunks : c[1] = t}]

\* cpdb.TaskCheckpoint: nil or the zero-value Task when no task row exists
TaskCheckpointResults(st) ==
    IF st.task.exists
    THEN {[nil |-> FALSE, TaskID |-> st.task.TaskID]}
    ELSE {[nil |-> TRUE, TaskID |-> 0], [nil |-> FALSE, TaskID |-> 0]}

\* cpdb.RemoveCheckpoint(target): every row for "all", else the rows scoped
\* to one table; removing what is not there is a no-op
RemoveCheckpointRows(st, target) ==
    IF target = "all"
    THEN EmptyStore
    ELSE [st EXCEPT !.tables = @ \ {target},
                    !.engines = {e \in @ : e[1] # target},
                    !.chunks = {c \in @ : c[1] # target}]

\* if taskCp != nil && taskCp.TaskID != 0
NeedsMetaCleanupNonNil(taskCp) == ~taskCp.nil
NeedsMetaCleanup(taskCp) == ~taskCp.nil /\ taskCp.TaskID # 0

\* the target handed to cpdb.RemoveCheckpoint
RemoveTargetFirstTable(name) == IF name = "all" THEN TableOrder[1] ELSE name
RemoveTargetAll(name) == "all"
RemoveTarget(name) == name

RemoveErr(step) == Err(step, "", 0)

RemoveFault(err) ==
    /\ Return(err)
    /\ rmHist' = [rmHist EXCEPT !.fault = TRUE, !.failed = @ \cup {err[1]}]

RemoveOpenCheckpointsDB ==
    /\ pc = "rm.open"
    /\ \/ /\ pc' = "rm.task"
          /\ UNCHANGED <<ret, rmHist>>
       \/ RemoveFault(RemoveErr("OpenCheckpointsDB"))
    /\ UNCHANGED <<store, rmTaskCp, rmRun, metas, tableName, notRemove>>

\* taskCp, err := cpdb.TaskCheckpoint(ctx), and the test that follows it
TaskCheckpoint ==
    /\ pc = "rm.task"
    /\ \/ \E cp \in TaskCheckpointResults(store) :
             /\ rmTaskCp' = cp
             /\ pc' = IF NeedsMetaCleanup(cp) THEN "rm.metas" ELSE "rm.remove"
             /\ rmHist' = [rmHist EXCEPT !.taskRead = TRUE]
             /\ UNCHANGED ret
       \/ /\ RemoveFault(RemoveErr("TaskCheckpoint"))
          /\ UNCHANGED rmTaskCp
    /\ UNCHANGED <<store, rmRun, metas, tableName, notRemove>>

\* if err = cleanupMetas(ctx, cfg, tableName); err != nil { return }
RemoveCleanupMetasIgnoringErr ==
    /\ pc = "rm.metas"
    /\ \E r \in CleanupMetas(metas, tableName) :
          /\ metas' = r.metas
          /\ pc' = "rm.remove"
          /\ rmHist' = [rmHist EXCEPT !.metasCalled = TRUE,
                                      !.fault = (@ \/ r.err # NoErr),
                                      !.failed = @ \cup ({r.err[1]} \ {NoErr[1]})]
          /\ UNCHANGED ret
    /\ UNCHANGED <<store, rmTaskCp, rmRun, tableName, notRemove>>
RemoveCleanupMetas ==
    /\ pc = "rm.metas"
    /\ \E r \in CleanupMetas(metas, tableName) :
          /\ metas' = r.metas
          /\ IF r.err = NoErr
             THEN /\ pc' = "rm.remove"
                  /\ rmHist' = [rmHist EXCEPT !.metasCalled = TRUE]
                  /\ UNCHANGED ret
             ELSE /\ Return(r.err)
                  /\ rmHist' = [rmHist EXCEPT !.metasCalled = TRUE, !.fault = TRUE,
                                              !.failed = @ \cup {r.err[1]}]
    /\ UNCHANGED <<store, rmTaskCp, rmRun, tableName, notRemove>>

\* return errors.Trace(cpdb.RemoveCheckpoint(ctx, tableName))
RemoveCheckpoint ==
    /\ pc = "rm.remove"
    /\ \/ /\ store' = RemoveCheckpointRows(store, RemoveTarget(tableName))
          /\ Return(NoErr)
          /\ rmHist' = [rmHist EXCEPT !.removeCalled = TRUE]
       \/ /\ Return(RemoveErr("RemoveCheckpoint"))
          /\ rmHist' = [rmHist EXCEPT !.removeCalled = TRUE, !.fault = TRUE,
                                      !.failed = @ \cup {"RemoveCheckpoint"}]
          /\ UNCHANGED store
    /\ UNCHANGED <<rmTaskCp, rmRun, metas, tableName, notRemove>>

NilTaskCp == [nil |-> TRUE, TaskID |-> 0]
FreshHist(st, m, prev) ==
    [fault |-> FALSE, failed |-> {}, taskRead |-> FALSE, metasCalled |-> FALSE,
     removeCalled |-> FALSE, before |-> st, metasBefore |-> m, prevRet |-> prev]

\* the operator runs checkpoint-remove on the same target again
RemoveAgain ==
    /\ pc = "done"
    /\ rmRun < MaxRuns
    /\ rmRun' = rmRun + 1
    /\ pc' = "rm.open"
    /\ ret' = NoErr
    /\ rmTaskCp' = NilTaskCp
    /\ rmHist' = FreshHist(store, metas, <<ret>>)
    /\ UNCHANGED <<store, metas, tableName, notRemove>>

----------------------------------------------------------------------------
(* getLocalStoringTables *)

BackendLocal == "local"
NothingChecked == [checked |-> FALSE, exist |-> FALSE, opened |-> FALSE, existed |-> TRUE]
NoTableMsg == <<"No table has lost intermediate files according to given config">>
MissingMsg(tables) == <<"These tables are missing intermediate files:", tables>>

\* cpdb.GetLocalStoringTables: the tables whose checkpoint still records
\* engines with local data
LocalStoringTables(db) ==
    {t \in Tables : db[t].present /\ db[t].MinEngineID <= db[t].MaxEngineID}

\* the orders in which a range over a map with these keys visits them
RangeOrders(keys) ==
    {q \in UNION {[1..n -> keys] : n \in {Cardinality(keys)}} :
        \A i, j \in DOMAIN q : i # j => q[i] # q[j]}

\* the deferred function: on a nil result, one of the two messages
Deferred(err, tables) ==
    IF err = NoErr
    THEN IF Len(tables) = 0 THEN NoTableMsg ELSE MissingMsg(tables)
    ELSE <<>>

LsReturn(err, tables) ==
    /\ Return(err)
    /\ glOut' = Deferred(err, tables)

LsErr(step) == Err(step, "", 0)

\* if cfg.TikvImporter.Backend != config.BackendLocal { return nil }
BackendCheck ==
    /\ pc = "ls.start"
    /\ IF backendKind # BackendLocal
       THEN LsReturn(NoErr, glTables)
       ELSE pc' = "ls.exists" /\ UNCHANGED <<ret, glOut>>
    /\ UNCHANGED <<cpdb, cfgVars, dbExists, glTables, glHist, notLs>>

\* if !exist
SkipsOpenNever(exist) == FALSE
SkipsOpen(exist) == ~exist

\* exist, err := checkpoints.IsCheckpointsDBExists(ctx, cfg) and its two tests
IsCheckpointsDBExists ==
    /\ pc = "ls.exists"
    /\ \/ /\ LsReturn(LsErr("IsCheckpointsDBExists"), glTables)
          /\ UNCHANGED glHist
       \/ /\ glHist' = [glHist EXCEPT !.checked = TRUE, !.exist = dbExists]
          /\ IF SkipsOpen(dbExists)
             THEN LsReturn(NoErr, glTables)
             ELSE pc' = "ls.open" /\ UNCHANGED <<ret, glOut>>
    /\ UNCHANGED <<cpdb, cfgVars, dbExists, glTables, notLs>>

\* cpdb, err := checkpoints.OpenCheckpointsDB(ctx, cfg): opening a store that
\* does not exist creates it
LsOpenCheckpointsDB ==
    /\ pc = "ls.open"
    /\ \/ /\ LsReturn(LsErr("OpenCheckpointsDB"), glTables)
          /\ UNCHANGED <<glHist, dbExists>>
       \/ /\ glHist' = [glHist EXCEPT !.opened = TRUE]
          /\ dbExists' = TRUE
          /\ pc' = "ls.get"
          /\ UNCHANGED <<ret, glOut>>
    /\ UNCHANGED <<cpdb, cfgVars, glTables, notLs>>

\* tableWithEngine, err := cpdb.GetLocalStoringTables(ctx), the copy of its
\* keys into tables, and the return
GetLocalStoringTables ==
    /\ pc = "ls.get"
    /\ \/ /\ LsReturn(LsErr("GetLocalStoringTables"), glTables)
          /\ UNCHANGED glTables
       \/ \E q \in RangeOrders(LocalStoringTables(cpdb)) :
             /\ glTables' = q
             /\ LsReturn(NoErr, q)
    /\ UNCHANGED <<cpdb, cfgVars, dbExists, glHist, notLs>>

----------------------------------------------------------------------------
(* checkpointErrorIgnore *)

\* cpdb.IgnoreErrorCheckpoint: the matching tables leave the error state
IgnoreRows(db, target) ==
    [t \in Tables |-> IF t \in ErrorTables(db, target)
                      THEN [db[t] EXCEPT !.errored = FALSE]
                      ELSE db[t]]

IgnoreOpenCheckpointsDB ==
    /\ pc = "ig.open"
    /\ \/ pc' = "ig.ignore" /\ UNCHANGED ret
       \/ Return(Err("OpenCheckpointsDB", "", 0))
    /\ UNCHANGED <<cpdb, notIgnore>>

\* return errors.Trace(cpdb.IgnoreErrorCheckpoint(ctx, tableName))
IgnoreErrorCheckpoint ==
    /\ pc = "ig.ignore"
    /\ \/ /\ cpdb' = IgnoreRows(cpdb, tableName)
          /\ Return(NoErr)
       \/ /\ Return(Err("IgnoreErrorCheckpoint", "", 0))
          /\ UNCHANGED cpdb
    /\ UNCHANGED notIgnore

----------------------------------------------------------------------------
(* main and run *)

\* the action flags, in the order run() tests them
FlagOrder == <<"compact", "fetch-mode", "switch-mode", "import-engine",
               "cleanup-engine", "checkpoint-remove", "checkpoint-error-ignore",
               "checkpoint-error-destroy", "checkpoint-dump", "check-local-storage">>
ActionFlags == {FlagOrder[i] : i \in DOMAIN FlagOrder}

\* the steps of run() that can fail before a command is chosen
ConfigSteps == {"LoadFromGlobal", "Adjust", "ToTLS", "RegisterMySQL"}

\* the command of the first test of run() that succeeds, or "none"
Chosen(fs) ==
    IF fs \cap ActionFlags = {}
    THEN "none"
    ELSE FlagOrder[CHOOSE i \in DOMAIN FlagOrder :
                     /\ FlagOrder[i] \in fs
                     /\ \A j \in 1..(i - 1) : FlagOrder[j] \notin fs]

\* where the chosen command starts
StartOf(cmd) ==
    CASE cmd \in {"compact", "fetch-mode", "switch-mode"} -> "fleet.start"
      [] cmd \in {"import-engine", "cleanup-engine"} -> "engine.start"
      [] cmd = "checkpoint-remove" -> "rm.open"
      [] cmd = "checkpoint-error-ignore" -> "ig.open"
      [] cmd = "checkpoint-error-destroy" -> "open"
      [] cmd = "checkpoint-dump" -> "dump.open"
      [] cmd = "check-local-storage" -> "ls.start"

\* main: exit(1) if run() returned an error
ExitStatusAlwaysZero(err) == 0
ExitStatus(err) == IF err # NoErr THEN 1 ELSE 0

\* run() up to the dispatch: the configuration is loaded and adjusted
LoadConfig ==
    /\ pc = "main.config"
    /\ \/ pc' = "main.dispatch" /\ UNCHANGED ret
       \/ \E step \in ConfigSteps : Return(Err(step, "", 0))
    /\ UNCHANGED <<cpdb, destroyOnly, dumpVars, fleetVars, engineVars, localVars,
                   removeVars, lsVars, mainVars, aggVars>>

\* run(): the chain of tests on the action flags, and fsUsage() at its end
Dispatch ==
    /\ pc = "main.dispatch"
    /\ LET cmd == Chosen(flags)
       IN /\ executed' = cmd
          /\ IF cmd = "none"
             THEN /\ usage' = TRUE
                  /\ Return(NoErr)
             ELSE /\ pc' = StartOf(cmd)
                  /\ UNCHANGED <<ret, usage>>
          /\ fleetCmd' = IF cmd \in FleetCmds THEN cmd ELSE fleetCmd
          /\ engCmd' = IF cmd \in {"import-engine", "cleanup-engine"} THEN cmd ELSE engCmd
    /\ UNCHANGED <<cpdb, destroyOnly, dumpVars, localVars, removeVars, lsVars,
                   flags, exitStatus, aggVars>>
    /\ UNCHANGED <<stores, nodeMode, modeArg, selected, invoked, opFailed, logged,
                   printed>>
    /\ UNCHANGED <<engineArg, cfgSplitSize, splitHint, engState, cluster, ce, runNo,
                   afterFirst, engCalls>>

\* main: run() has returned; the process exits
Exit ==
    /\ pc = "done"
    /\ exitStatus = -1
    /\ exitStatus' = ExitStatus(ret)
    /\ pc' = "exited"
    /\ UNCHANGED <<ret, cpdb, destroyOnly, dumpVars, fleetVars, engineVars, localVars,
                   removeVars, lsVars, flags, executed, usage, aggVars>>

----------------------------------------------------------------------------
(* The SUM aggregate function over decimals, as func_sum_test.go drives it *)

\* a decimal is v / 10^frac; a datum is a decimal or NULL
Dec(v, frac) == [null |-> FALSE, v |-> v, frac |-> frac]
Null == [null |-> TRUE, v |-> 0, frac |-> 0]
NewDecFromInt(i) == Dec(i, 0)
MaxFrac == 1
Pow10(n) == 10^n
DecValues == {Dec(0, 0), Dec(1, 0), Dec(-15, 1), Dec(25, 1)}
Datums == DecValues \cup {Null}

\* types.DecimalAdd: exact, at the larger of the two scales
DecimalAdd(a, b) ==
    LET f == IF a.frac >= b.frac THEN a.frac ELSE b.frac
    IN Dec(a.v * Pow10(f - a.frac) + b.v * Pow10(f - b.frac), f)

\* the partial result of SUM: the running sum and the count of non-NULL rows
EmptyPartial == [val |-> Dec(0, 0), notNullRowCount |-> 0]

\* UpdatePartialResult: NULL rows are skipped, the first value is copied
RECURSIVE UpdatePartialResult(_, _)
UpdatePartialResult(rows, pr) ==
    IF rows = <<>>
    THEN pr
    ELSE LET input == Head(rows)
         IN UpdatePartialResult(
                Tail(rows),
                IF input.null THEN pr
                ELSE IF pr.notNullRowCount = 0
                     THEN [val |-> input, notNullRowCount |-> 1]
                     ELSE [val |-> DecimalAdd(pr.val, input),
                           notNullRowCount |-> pr.notNullRowCount + 1])

\* MergePartialResult(src, dst): an empty src leaves dst alone
MergePartialResultKeepCount(src, dst) ==
    IF src.notNullRowCount = 0
    THEN dst
    ELSE [val |-> DecimalAdd(src.val, dst.val), notNullRowCount |-> dst.notNullRowCount]
MergePartialResult(src, dst) ==
    IF src.notNullRowCount = 0
    THEN dst
    ELSE [val |-> DecimalAdd(src.val, dst.val),
          notNullRowCount |-> dst.notNullRowCount + src.notNullRowCount]

\* AppendFinalResult2Chunk: NULL when no non-NULL row was seen
AppendFinalResult(pr) == IF pr.notNullRowCount = 0 THEN Null ELSE pr.val

\* the test's input: numRows rows holding 0, 1, ..., and for the second
\* partial result the rows from the third on
TestNumRows == 5
TestRows == [i \in 1..TestNumRows |-> NewDecFromInt(i - 1)]
TestInputs == <<TestRows, SubSeq(TestRows, 3, TestNumRows)>>

AggUpdate(i) ==
    /\ aggPc = <<"update", i>>
    /\ aggPartial' = [aggPartial EXCEPT ![i] = UpdatePartialResult(aggRows[i], EmptyPartial)]
    /\ aggPc' = IF i < Len(aggRows) THEN <<"update", i + 1>> ELSE <<"merge", 1>>
    /\ UNCHANGED <<aggRows, aggFinal, aggResult>>
    /\ UNCHANGED <<pc, ret, cpdb, destroyOnly, dumpVars, fleetVars, engineVars,
                   localVars, removeVars, lsVars, mainVars>>

AggMerge(i) ==
    /\ aggPc = <<"merge", i>>
    /\ aggFinal' = MergePartialResult(aggPartial[i], aggFinal)
    /\ aggPc' = IF i < Len(aggRows) THEN <<"merge", i + 1>> ELSE <<"final", 0>>
    /\ UNCHANGED <<aggRows, aggPartial, aggResult>>
    /\ UNCHANGED <<pc, ret, cpdb, destroyOnly, dumpVars, fleetVars, engineVars,
                   localVars, removeVars, lsVars, mainVars>>

AggFinal ==
    /\ aggPc = <<"final", 0>>
    /\ aggResult' = AppendFinalResult(aggFinal)
    /\ aggPc' = <<"done", 0>>
    /\ UNCHANGED <<aggRows, aggPartial, aggFinal>>
    /\ UNCHANGED <<pc, ret, cpdb, destroyOnly, dumpVars, fleetVars, engineVars,
                   localVars, removeVars, lsVars, mainVars>>

----------------------------------------------------------------------------
(* The checkpoint-error-destroy command *)

MetasInit == {[tableMeta |-> a, taskMeta |-> b, rows |-> IF a THEN Tables ELSE {}] :
                a, b \in BOOLEAN}

SegmentsOf(db) ==
    UNION {{MakeUUID(t, id) : id \in EnginesOf(db[t].MinEngineID, db[t].MaxEngineID)} :
            t \in Tables}

DumpIdle ==
    /\ dumpFolder = [n \in DumpFileNames |-> NoFile]
    /\ tablesFile = NilHandle
    /\ enginesFile = NilHandle
    /\ chunksFile = NilHandle

FleetIdle ==
    /\ stores = [n \in Nodes |-> "Up"]
    /\ nodeMode = [n \in Nodes |-> NormalMode]
    /\ fleetCmd = "compact"
    /\ modeArg = ""
    /\ selected = {}
    /\ invoked = {}
    /\ opFailed = {}
    /\ logged = {}
    /\ printed = [n \in Nodes |-> ""]

EngineIdle ==
    /\ engineArg = <<>>
    /\ engCmd = "import-engine"
    /\ cfgSplitSize = 0
    /\ splitHint = 0
    /\ engState = [u \in EngineKeys |-> "Open"]
    /\ cluster = EmptyBag
    /\ ce = NoEngine
    /\ runNo = 1
    /\ afterFirst = [set |-> FALSE, data |-> EmptyBag]
    /\ engCalls = <<>>

LocalUUIDs == {MakeUUID(LocalTableName, id) : id \in -1..MaxEngineID}

LocalIdle ==
    /\ segDir = [u \in LocalUUIDs |-> NoSegment]
    /\ lRange = <<0, -1>>
    /\ lPc = [p \in Procs |-> "done"]
    /\ lID = [p \in Procs |-> 0]
    /\ lSeen = [p \in Procs |-> {}]
    /\ lLastErr = [p \in Procs |-> NoErr]
    /\ lHist = [p \in Procs |-> [fault |-> FALSE, absent |-> FALSE, raced |-> FALSE]]

RemoveIdle ==
    /\ store = EmptyStore
    /\ rmTaskCp = NilTaskCp
    /\ rmRun = 1
    /\ rmHist = FreshHist(EmptyStore, [tableMeta |-> FALSE, taskMeta |-> FALSE, rows |-> {}], <<>>)

LsIdle ==
    /\ dbExists = TRUE
    /\ glTables = <<>>
    /\ glOut = <<>>
    /\ glHist = NothingChecked

MainIdle ==
    /\ flags = {}
    /\ executed = "none"
    /\ usage = FALSE
    /\ exitStatus = -1

AggIdle ==
    /\ aggRows = <<<<>>, <<>>>>
    /\ aggPc = <<"done", 0>>
    /\ aggPartial = <<EmptyPartial, EmptyPartial>>
    /\ aggFinal = EmptyPartial
    /\ aggResult = Null

DestroyIdle ==
    /\ catalog = Tables
    /\ cpdb0 = [t \in Tables |-> AbsentRow]
    /\ metas \in {[tableMeta |-> FALSE, taskMeta |-> FALSE, rows |-> {}]}
    /\ segments = {}
    /\ tableName = "all"
    /\ backendKind = "tidb"
    /\ targetTables = <<>>
    /\ ti = 1
    /\ engineID = 0
    /\ lastErr = NoErr
    /\ importerConn = "none"
    /\ dropAttempted = {}
    /\ closeAttempted = {}
    /\ closeOK = {}
    /\ cleanupAttempted = {}
    /\ localAttempted = {}
    /\ metasAttempted = FALSE
    /\ dropFailed = FALSE
    /\ engineFailed = FALSE
    /\ lastFailed = NoErr

Init ==
    /\ AggIdle
    /\ MainIdle
    /\ LsIdle
    /\ RemoveIdle
    /\ pc = "open"
    /\ ret = NoErr
    /\ cpdb \in [Tables -> Rows]
    /\ cpdb0 = cpdb
    /\ DumpIdle
    /\ FleetIdle
    /\ EngineIdle
    /\ LocalIdle
    /\ catalog = Tables
    /\ metas \in MetasInit
    /\ segments = SegmentsOf(cpdb)
    /\ tableName \in Targets
    /\ backendKind \in Backends
    /\ targetTables = <<>>
    /\ ti = 1
    /\ engineID = 0
    /\ lastErr = NoErr
    /\ importerConn = "none"
    /\ dropAttempted = {}
    /\ closeAttempted = {}
    /\ closeOK = {}
    /\ cleanupAttempted = {}
    /\ localAttempted = {}
    /\ metasAttempted = FALSE
    /\ dropFailed = FALSE
    /\ engineFailed = FALSE
    /\ lastFailed = NoErr

Next ==
    \/ OpenCheckpointsDB
    \/ NewTiDBManager
    \/ DestroyErrorCheckpoint
    \/ DropTable
    \/ DropLoopExit
    \/ NewImporter
    \/ ImporterTable
    \/ ImporterEngine
    \/ ImporterEngineExit
    \/ LocalIf
    \/ LocalTable
    \/ LocalEngine
    \/ LocalEngineExit
    \/ CleanupMetasAndReturn

Spec == Init /\ [][Next]_vars

----------------------------------------------------------------------------
(* The checkpoint-dump command *)

\* a dump folder that is new, or holds the files of an earlier dump
OldFile == [exists |-> TRUE, data |-> <<"old", "\n">>]

InitDump ==
    /\ AggIdle
    /\ MainIdle
    /\ LsIdle
    /\ RemoveIdle
    /\ pc = "dump.open"
    /\ ret = NoErr
    /\ cpdb \in [Tables -> Rows]
    /\ dumpFolder \in [DumpFileNames -> {NoFile, OldFile}]
    /\ tablesFile = NilHandle
    /\ enginesFile = NilHandle
    /\ chunksFile = NilHandle
    /\ DestroyIdle
    /\ FleetIdle
    /\ EngineIdle
    /\ LocalIdle

NextDump ==
    \/ DumpOpenCheckpointsDB
    \/ MkdirAll
    \/ CreateTablesFile
    \/ CreateEnginesFile
    \/ CreateChunksFile
    \/ DumpTables
    \/ DumpEngines
    \/ DumpChunks

SpecDump == InitDump /\ [][NextDump]_vars

----------------------------------------------------------------------------
(* The fleet commands *)

InitFleet ==
    /\ AggIdle
    /\ MainIdle
    /\ LsIdle
    /\ RemoveIdle
    /\ pc = "fleet.start"
    /\ ret = NoErr
    /\ stores \in [Nodes -> StoreStates]
    /\ nodeMode \in {[n \in Nodes |-> m] : m \in {ImportMode, NormalMode}}
    /\ fleetCmd \in FleetCmds
    /\ modeArg \in IF fleetCmd = "switch-mode" THEN ModeArgs ELSE {""}
    /\ selected = {}
    /\ invoked = {}
    /\ opFailed = {}
    /\ logged = {}
    /\ printed = [n \in Nodes |-> ""]
    /\ cpdb = [t \in Tables |-> AbsentRow]
    /\ DestroyIdle
    /\ DumpIdle
    /\ EngineIdle
    /\ LocalIdle

NextFleet ==
    \/ CompactCluster
    \/ SwitchMode
    \/ FetchMode
    \/ Discover
    \/ \E n \in Nodes : NodeOp(n)
    \/ FleetReturn

SpecFleet == InitFleet /\ [][NextFleet]_vars

----------------------------------------------------------------------------
(* The engine commands *)

\* every engine has been written and not yet imported; the cluster is empty
\* or holds an older value under one of the keys
InitEngine ==
    /\ AggIdle
    /\ MainIdle
    /\ LsIdle
    /\ RemoveIdle
    /\ pc = "engine.start"
    /\ ret = NoErr
    /\ engineArg \in EngineArgs
    /\ engCmd \in {"import-engine", "cleanup-engine"}
    /\ cfgSplitSize \in {0, SplitRegionSize \div 2}
    /\ splitHint = 0
    /\ engState \in {[u \in EngineKeys |-> st] : st \in {"Open", "Writing", "Closed"}}
    /\ cluster \in {EmptyBag, SetToBag({<<"k1", NoEngine>>})}
    /\ ce = NoEngine
    /\ runNo = 1
    /\ afterFirst = [set |-> FALSE, data |-> EmptyBag]
    /\ engCalls = <<>>
    /\ cpdb = [t \in Tables |-> AbsentRow]
    /\ DestroyIdle
    /\ DumpIdle
    /\ FleetIdle
    /\ LocalIdle

NextEngine ==
    \/ EngineNewImporter
    \/ UnsafeCloseEngine
    \/ Import
    \/ Cleanup
    \/ RunAgain

SpecEngine == InitEngine /\ [][NextEngine]_vars

----------------------------------------------------------------------------
(* Two processes cleaning the local engines of one table *)

\* every segment of the range is absent, an empty directory or a directory
\* with its file
InitLocal ==
    /\ AggIdle
    /\ MainIdle
    /\ LsIdle
    /\ RemoveIdle
    /\ lRange \in Ranges
    /\ segDir \in [LocalUUIDs -> {NoSegment} \cup
                      {[exists |-> TRUE, files |-> fs] : fs \in SUBSET SegmentFiles}]
    /\ lPc = [p \in Procs |-> "loop"]
    /\ lID = [p \in Procs |-> lRange[1]]
    /\ lSeen = [p \in Procs |-> {}]
    /\ lLastErr = [p \in Procs |-> NoErr]
    /\ lHist = [p \in Procs |-> [fault |-> FALSE, absent |-> FALSE, raced |-> FALSE]]
    /\ pc = "done"
    /\ ret = NoErr
    /\ cpdb = [t \in Tables |-> AbsentRow]
    /\ DestroyIdle
    /\ DumpIdle
    /\ FleetIdle
    /\ EngineIdle

NextLocal ==
    \/ \E p \in Procs : LocalLoop(p)
    \/ \E p \in Procs : RemoveFirst(p)
    \/ \E p \in Procs : ReadDir(p)
    \/ \E p \in Procs : Unlink(p)
    \/ \E p \in Procs : Rmdir(p)

SpecLocal == InitLocal /\ [][NextLocal]_vars

----------------------------------------------------------------------------
(* The checkpoint-remove command, run up to MaxRuns times *)

\* stores whose engine rows belong to table rows and chunk rows to data engines
Stores ==
    {[task |-> [exists |-> e, TaskID |-> IF e THEN id ELSE 0],
      tables |-> ts,
      engines |-> UNION {{<<t, i>> : i \in -1..hi[t]} : t \in ts},
      chunks |-> UNION {{<<t, i>> : i \in 0..hi[t]} : t \in ts}] :
        e \in BOOLEAN, id \in 0..1, ts \in SUBSET Tables,
        hi \in [Tables -> -1..MaxEngineID]}

InitRemove ==
    /\ AggIdle
    /\ MainIdle
    /\ LsIdle
    /\ pc = "rm.open"
    /\ ret = NoErr
    /\ store \in Stores
    /\ metas \in MetasInit
    /\ tableName \in Targets
    /\ rmTaskCp = NilTaskCp
    /\ rmRun = 1
    /\ rmHist = FreshHist(store, metas, <<>>)
    /\ cpdb = [t \in Tables |-> AbsentRow]
    /\ cpdb0 = cpdb
    /\ catalog = Tables
    /\ segments = {}
    /\ backendKind = "tidb"
    /\ targetTables = <<>>
    /\ ti = 1
    /\ engineID = 0
    /\ lastErr = NoErr
    /\ importerConn = "none"
    /\ dropAttempted = {}
    /\ closeAttempted = {}
    /\ closeOK = {}
    /\ cleanupAttempted = {}
    /\ localAttempted = {}
    /\ metasAttempted = FALSE
    /\ dropFailed = FALSE
    /\ engineFailed = FALSE
    /\ lastFailed = NoErr
    /\ DumpIdle
    /\ FleetIdle
    /\ EngineIdle
    /\ LocalIdle

NextRemove ==
    \/ RemoveOpenCheckpointsDB
    \/ TaskCheckpoint
    \/ RemoveCleanupMetas
    \/ RemoveCheckpoint
    \/ RemoveAgain

SpecRemove == InitRemove /\ [][NextRemove]_vars

----------------------------------------------------------------------------
(* The check-local-storage command *)

\* a store that does not exist holds no row
InitLs ==
    /\ AggIdle
    /\ MainIdle
    /\ pc = "ls.start"
    /\ ret = NoErr
    /\ dbExists \in BOOLEAN
    /\ cpdb \in IF dbExists THEN [Tables -> Rows] ELSE {[t \in Tables |-> AbsentRow]}
    /\ cpdb0 = cpdb
    /\ backendKind \in Backends
    /\ tableName = "all"
    /\ glTables = <<>>
    /\ glOut = <<>>
    /\ glHist = [NothingChecked EXCEPT !.existed = dbExists]
    /\ catalog = Tables
    /\ metas = [tableMeta |-> FALSE, taskMeta |-> FALSE, rows |-> {}]
    /\ segments = {}
    /\ targetTables = <<>>
    /\ ti = 1
    /\ engineID = 0
    /\ lastErr = NoErr
    /\ importerConn = "none"
    /\ dropAttempted = {}
    /\ closeAttempted = {}
    /\ closeOK = {}
    /\ cleanupAttempted = {}
    /\ localAttempted = {}
    /\ metasAttempted = FALSE
    /\ dropFailed = FALSE
    /\ engineFailed = FALSE
    /\ lastFailed = NoErr
    /\ DumpIdle
    /\ FleetIdle
    /\ EngineIdle
    /\ LocalIdle
    /\ RemoveIdle

NextLs ==
    \/ BackendCheck
    \/ IsCheckpointsDBExists
    \/ LsOpenCheckpointsDB
    \/ GetLocalStoringTables

SpecLs == InitLs /\ [][NextLs]_vars

----------------------------------------------------------------------------
(* The commands that take an argument to validate: a fleet command or an     *)
(* engine command is run                                                      *)

InitArgs == InitFleet \/ InitEngine

NextArgs ==
    \/ CompactCluster
    \/ SwitchMode
    \/ FetchMode
    \/ Discover
    \/ \E n \in Nodes : NodeOp(n)
    \/ FleetReturn
    \/ EngineNewImporter
    \/ UnsafeCloseEngine
    \/ Import
    \/ Cleanup
    \/ RunAgain

SpecArgs == InitArgs /\ [][NextArgs]_vars

----------------------------------------------------------------------------
(* One run of the tool: main, run, and the command run() dispatches to *)

\* no flag, one flag or two flags are given
FlagSets == {fs \in SUBSET ActionFlags : Cardinality(fs) <= 2}

\* one table in an error state and one that is not, each with an index engine
\* and a data engine
MainStore ==
    [t \in Tables |-> [present |-> TRUE, errored |-> t = TableOrder[1],
                       MinEngineID |-> -1, MaxEngineID |-> 0]]

InitMain ==
    /\ AggIdle
    /\ pc = "main.config"
    /\ ret = NoErr
    /\ flags \in FlagSets
    /\ executed = "none"
    /\ usage = FALSE
    /\ exitStatus = -1
    /\ cpdb = MainStore
    /\ cpdb0 = cpdb
    /\ catalog = Tables
    /\ metas = [tableMeta |-> TRUE, taskMeta |-> TRUE, rows |-> Tables]
    /\ segments = SegmentsOf(cpdb)
    /\ tableName \in Targets
    /\ backendKind \in Backends
    /\ targetTables = <<>>
    /\ ti = 1
    /\ engineID = 0
    /\ lastErr = NoErr
    /\ importerConn = "none"
    /\ dropAttempted = {}
    /\ closeAttempted = {}
    /\ closeOK = {}
    /\ cleanupAttempted = {}
    /\ localAttempted = {}
    /\ metasAttempted = FALSE
    /\ dropFailed = FALSE
    /\ engineFailed = FALSE
    /\ lastFailed = NoErr
    /\ DumpIdle
    /\ stores = [n \in Nodes |-> IF n = 1 THEN StoreStateDisconnected ELSE "Up"]
    /\ nodeMode = [n \in Nodes |-> NormalMode]
    /\ fleetCmd = "compact"
    /\ modeArg \in {ImportMode, "imprt"}
    /\ selected = {}
    /\ invoked = {}
    /\ opFailed = {}
    /\ logged = {}
    /\ printed = [n \in Nodes |-> ""]
    /\ engineArg \in {<<"t", ":", "0">>, <<"t", ":", "x">>}
    /\ engCmd = "import-engine"
    /\ cfgSplitSize = 0
    /\ splitHint = 0
    /\ engState = [u \in EngineKeys |-> "Closed"]
    /\ cluster = EmptyBag
    /\ ce = NoEngine
    /\ runNo = 1
    /\ afterFirst = [set |-> FALSE, data |-> EmptyBag]
    /\ engCalls = <<>>
    /\ LocalIdle
    /\ store = [task |-> [exists |-> TRUE, TaskID |-> 1], tables |-> Tables,
                engines |-> {<<t, i>> : t \in Tables, i \in -1..0},
                chunks |-> {<<t, 0>> : t \in Tables}]
    /\ rmTaskCp = NilTaskCp
    /\ rmRun = 1
    /\ rmHist = FreshHist(store, metas, <<>>)
    /\ LsIdle

NextMain ==
    \/ LoadConfig
    \/ Dispatch
    \/ Exit
    \/ CompactCluster
    \/ SwitchMode
    \/ FetchMode
    \/ Discover
    \/ \E n \in Nodes : NodeOp(n)
    \/ FleetReturn
    \/ EngineNewImporter
    \/ UnsafeCloseEngine
    \/ Import
    \/ Cleanup
    \/ RemoveOpenCheckpointsDB
    \/ TaskCheckpoint
    \/ RemoveCleanupMetas
    \/ RemoveCheckpoint
    \/ IgnoreOpenCheckpointsDB
    \/ IgnoreErrorCheckpoint
    \/ OpenCheckpointsDB
    \/ NewTiDBManager
    \/ DestroyErrorCheckpoint
    \/ DropTable
    \/ DropLoopExit
    \/ NewImporter
    \/ ImporterTable
    \/ ImporterEngine
    \/ ImporterEngineExit
    \/ LocalIf
    \/ LocalTable
    \/ LocalEngine
    \/ LocalEngineExit
    \/ CleanupMetasAndReturn
    \/ DumpOpenCheckpointsDB
    \/ MkdirAll
    \/ CreateTablesFile
    \/ CreateEnginesFile
    \/ CreateChunksFile
    \/ DumpTables
    \/ DumpEngines
    \/ DumpChunks
    \/ BackendCheck
    \/ IsCheckpointsDBExists
    \/ LsOpenCheckpointsDB
    \/ GetLocalStoringTables

SpecMain == InitMain /\ [][NextMain]_vars

----------------------------------------------------------------------------
(* SUM over two inputs, merged into one final result *)

RowSeqs == UNION {[1..n -> Datums] : n \in 0..MaxRows}

InitSum ==
    /\ aggRows \in (RowSeqs \X RowSeqs) \cup {TestInputs}
    /\ aggPc = <<"update", 1>>
    /\ aggPartial = <<EmptyPartial, EmptyPartial>>
    /\ aggFinal = EmptyPartial
    /\ aggResult = Null
    /\ pc = "done"
    /\ ret = NoErr
    /\ cpdb = [t \in Tables |-> AbsentRow]
    /\ DestroyIdle
    /\ DumpIdle
    /\ FleetIdle
    /\ EngineIdle
    /\ LocalIdle
    /\ RemoveIdle
    /\ LsIdle
    /\ MainIdle

NextSum ==
    \/ \E i \in 1..2 : AggUpdate(i)
    \/ \E i \in 1..2 : AggMerge(i)
    \/ AggFinal

SpecSum == InitSum /\ [][NextSum]_vars

----------------------------------------------------------------------------
(* The commands that close, import and clean engines: checkpoint-error-      *)
(* destroy, import-engine and cleanup-engine                                  *)

InitLifecycle == Init \/ InitEngine

NextLifecycle ==
    \/ OpenCheckpointsDB
    \/ NewTiDBManager
    \/ DestroyErrorCheckpoint
    \/ DropTable
    \/ DropLoopExit
    \/ NewImporter
    \/ ImporterTable
    \/ ImporterEngine
    \/ ImporterEngineExit
    \/ LocalIf
    \/ LocalTable
    \/ LocalEngine
    \/ LocalEngineExit
    \/ CleanupMetasAndReturn
    \/ EngineNewImporter
    \/ UnsafeCloseEngine
    \/ Import
    \/ Cleanup
    \/ RunAgain

SpecLifecycle == InitLifecycle /\ [][NextLifecycle]_vars

----------------------------------------------------------------------------
(* The checkpoint-error-destroy command on engine ranges from the whole of    *)
(* int32                                                                      *)

\* ranges at both ends of int32, an ordinary one, and empty ones
WideRanges == {<<MinInt32, MinInt32 + 1>>, <<-1, 1>>, <<1, 0>>,
               <<MaxInt32, MinInt32>>, <<MaxInt32 - 2, MaxInt32 - 1>>,
               <<MaxInt32 - 1, MaxInt32>>, <<MaxInt32, MaxInt32>>}

WideRows == {[present |-> TRUE, errored |-> TRUE,
              MinEngineID |-> r[1], MaxEngineID |-> r[2]] : r \in WideRanges}

InitRange ==
    /\ AggIdle
    /\ MainIdle
    /\ LsIdle
    /\ RemoveIdle
    /\ pc = "open"
    /\ ret = NoErr
    /\ cpdb \in {db \in [Tables -> WideRows \cup {AbsentRow}] :
                    /\ db[TableOrder[1]] # AbsentRow
                    /\ db[TableOrder[2]].MaxEngineID \in {-1, 1, MaxInt32}}
    /\ cpdb0 = cpdb
    /\ DumpIdle
    /\ FleetIdle
    /\ EngineIdle
    /\ LocalIdle
    /\ catalog = Tables
    /\ metas = [tableMeta |-> TRUE, taskMeta |-> TRUE, rows |-> Tables]
    /\ segments = SegmentsOf(cpdb)
    /\ tableName \in Targets
    /\ backendKind \in Backends
    /\ targetTables = <<>>
    /\ ti = 1
    /\ engineID = 0
    /\ lastErr = NoErr
    /\ importerConn = "none"
    /\ dropAttempted = {}
    /\ closeAttempted = {}
    /\ closeOK = {}
    /\ cleanupAttempted = {}
    /\ localAttempted = {}
    /\ metasAttempted = FALSE
    /\ dropFailed = FALSE
    /\ engineFailed = FALSE
    /\ lastFailed = NoErr

NextRange ==
    \/ OpenCheckpointsDB
    \/ NewTiDBManager
    \/ DestroyErrorCheckpoint
    \/ DropTable
    \/ DropLoopExit
    \/ NewImporter
    \/ ImporterTable
    \/ ImporterEngine
    \/ ImporterEngineExit
    \/ LocalIf
    \/ LocalTable
    \/ LocalEngine
    \/ LocalEngineExit
    \/ CleanupMetasAndReturn

SpecRange == InitRange /\ [][NextRange]_vars

----------------------------------------------------------------------------
(* Properties of checkpointErrorDestroy *)

TargetNames == {targetTables[i].TableName : i \in DOMAIN targetTables}
TargetUUIDs == {MakeUUID(e[1], e[2]) : e \in AllEngines(targetTables)}

\* DestroyErrorCheckpoint returned tables and no connection failure cut the
\* command short before the engine loops
EnginesReached == targetTables # <<>> /\ importerConn # "failed"

\* C2: when DestroyErrorCheckpoint reports NoErrorRecorded (no matching table
\* is in an error state), the command drops nothing, closes and cleans no
\* engine and returns nil.
C2_NoErrorRecordedIsSuccess ==
    (pc = "done" /\ lastFailed = NoErrorRecorded) =>
        /\ ret = NoErr
        /\ dropAttempted = {}
        /\ closeAttempted = {}
        /\ cleanupAttempted = {}
        /\ localAttempted = {}

\* C3 as stated: with the importer backend the finished command has called
\* UnsafeCloseEngine on every engine of every returned table, and Cleanup on
\* exactly the engines whose close succeeded.
C3_ImporterEveryEngineAttemptedAlways ==
    (pc = "done" /\ backendKind = "importer" /\ targetTables # <<>>) =>
        /\ closeAttempted = AllEngines(targetTables)
        /\ cleanupAttempted = closeOK

\* C3 as amended: with the importer backend, once the importer connection is open, the
\* finished command has called UnsafeCloseEngine on every engine of every
\* returned table, and Cleanup on exactly the engines whose close succeeded,
\* whichever closes and cleanups failed.
C3_ImporterEveryEngineAttempted ==
    (pc = "done" /\ backendKind = "importer" /\ importerConn = "open") =>
        /\ closeAttempted = AllEngines(targetTables)
        /\ cleanupAttempted = closeOK

\* the first engine of the first table failed to close, a later engine of that
\* table and an engine of the second table were closed and cleaned all the same
C3_Witness ==
    /\ pc = "done"
    /\ backendKind = "importer"
    /\ Len(targetTables) = 2
    /\ <<targetTables[1].TableName, targetTables[1].MinEngineID>> \in closeAttempted \ closeOK
    /\ \E e \in cleanupAttempted :
          e[1] = targetTables[1].TableName /\ e[2] > targetTables[1].MinEngineID
    /\ \E e \in cleanupAttempted : e[1] = targetTables[2].TableName

\* C4: the command returns the error of the last step that failed, and nil
\* exactly when no step failed.
C4_ReturnsLastError ==
    pc = "done" => ret = lastFailed

\* a table drop failed, an engine step failed after it, and the engine's error
\* is the one returned
C4_Witness ==
    /\ pc = "done"
    /\ dropFailed
    /\ engineFailed
    /\ ret[1] \in EngineErrKinds

\* C5 as stated: cleanupMetas is attempted exactly when no non-engine step
\* (a table drop) failed; engine failures do not suppress it.
C5_MetasUnlessFatalError ==
    (pc = "done" /\ EnginesReached) => (metasAttempted <=> ~dropFailed)

\* C5 as amended: cleanupMetas is attempted only once every engine has been
\* processed, and exactly when no table drop, engine close or engine cleanup
\* failed before it.
C5_MetasIffNothingFailed ==
    /\ metasAttempted =>
          /\ pc = "done"
          /\ backendKind = "importer" => closeAttempted = AllEngines(targetTables)
          /\ backendKind = "local" => localAttempted = TargetUUIDs
    /\ (pc = "done" /\ EnginesReached) =>
          (metasAttempted <=> (~dropFailed /\ ~engineFailed))

\* cleanupMetas ran after two or more engines were closed and cleaned
C5_Witness ==
    /\ pc = "done"
    /\ metasAttempted
    /\ Cardinality(cleanupAttempted) >= 2

\* C6: DropTable is called on every returned table, and a failed drop stops
\* neither the remaining drops nor the engine loops.
C6_EveryTableDropAttempted ==
    (pc = "done" /\ targetTables # <<>>) =>
        /\ dropAttempted = TargetNames
        /\ (backendKind = "importer" /\ importerConn = "open") =>
              closeAttempted = AllEngines(targetTables)
        /\ backendKind = "local" => localAttempted = TargetUUIDs

\* the first table's drop failed, the second table was dropped and the engines
\* of both were closed
C6_Witness ==
    /\ pc = "done"
    /\ Len(targetTables) = 2
    /\ targetTables[1].TableName \in catalog
    /\ targetTables[2].TableName \notin catalog
    /\ closeAttempted = AllEngines(targetTables)
    /\ \E e \in closeAttempted : e[1] = targetTables[1].TableName
    /\ \E e \in closeAttempted : e[1] = targetTables[2].TableName

\* C7: with the local backend the command calls File.Cleanup on the UUID of
\* every (table, engine ID) of every returned table, whichever cleanups fail,
\* removes every segment whose cleanup succeeded, and never connects to the
\* import service.
C7_LocalEveryEngineCleaned ==
    /\ backendKind = "local" =>
          /\ importerConn = "none"
          /\ closeAttempted = {}
    /\ (pc = "done" /\ backendKind = "local" /\ targetTables # <<>>) =>
          /\ localAttempted = TargetUUIDs
          /\ ~engineFailed => segments \cap TargetUUIDs = {}

\* three or more segments were addressed; one cleanup failed and left its
\* segment, another succeeded and removed its segment
C7_Witness ==
    /\ pc = "done"
    /\ backendKind = "local"
    /\ Cardinality(localAttempted) >= 3
    /\ engineFailed
    /\ localAttempted \cap segments # {}
    /\ localAttempted \ segments # {}

\* the tables that match the target and were recorded in an error state when
\* the command started
ErrorState0 ==
    {t \in Tables : /\ cpdb0[t].present
                    /\ cpdb0[t].errored
                    /\ tableName \in {"all", t}}

Engines0(t) == {<<t, id>> : id \in EnginesOf(cpdb0[t].MinEngineID, cpdb0[t].MaxEngineID)}

\* C13: the tables DestroyErrorCheckpoint returned are exactly the tables that
\* match the target and were in an error state, each with its pre-deletion
\* engine range, and their checkpoint rows are gone; a table not among them
\* keeps its checkpoint row, stays in the catalog with no drop attempted, and
\* has no engine closed or cleaned, through either backend.
C13_OnlyErrorTablesDestroyed ==
    /\ targetTables # <<>> =>
          /\ TargetNames = ErrorState0
          /\ \A i \in DOMAIN targetTables :
                LET t == targetTables[i].TableName
                IN /\ targetTables[i].MinEngineID = cpdb0[t].MinEngineID
                   /\ targetTables[i].MaxEngineID = cpdb0[t].MaxEngineID
                   /\ cpdb[t] = AbsentRow
    /\ \A t \in Tables \ ErrorState0 :
          /\ cpdb[t] = cpdb0[t]
          /\ t \in catalog
          /\ t \notin dropAttempted
          /\ \A e \in closeAttempted \cup cleanupAttempted : e[1] # t
          /\ \A id \in -1..MaxEngineID :
                /\ MakeUUID(t, id) \notin localAttempted
                /\ MakeUUID(t, id) \in segments <=> <<t, id>> \in Engines0(t)
    /\ \A t \in ErrorState0 :
          \A e \in closeAttempted \cup cleanupAttempted : e[1] = t => e \in Engines0(t)

\* target "all" with one table in an error state and one checkpointed table
\* that is not: the first was dropped and its engines closed and cleaned, the
\* second is untouched
C13_Witness ==
    /\ pc = "done"
    /\ tableName = "all"
    /\ Cardinality(ErrorState0) = 1
    /\ \E t \in Tables \ ErrorState0 : cpdb[t].present /\ cpdb[t].MaxEngineID >= 0
    /\ dropAttempted = ErrorState0
    /\ catalog = Tables \ ErrorState0
    /\ cleanupAttempted # {}

\* the tables whose checkpoint rows this run has deleted
Destroyed == {t \in Tables : cpdb0[t].present /\ ~cpdb[t].present}

\* the engines a close or cleanup attempt was made for, through either backend
Attempted ==
    {e \in UNION {Engines0(t) : t \in Tables} :
        e \in closeAttempted \/ MakeUUID(e[1], e[2]) \in localAttempted}

\* engines of a destroyed table that no close or cleanup attempt was made for
Orphaned == UNION {Engines0(t) : t \in Destroyed} \ Attempted

\* C22 as stated: with the importer or the local backend, whenever
\* checkpointErrorDestroy has returned, every engine of every table whose
\* checkpoint rows it deleted has had a close or cleanup attempt.
C22_NoOrphanedEngineAlways ==
    (pc = "done" /\ backendKind \in {"importer", "local"}) => Orphaned = {}

\* C22 as amended: with the importer or the local backend, a run that has
\* returned has made a close or cleanup attempt for every engine of every
\* table whose checkpoint rows it deleted, whichever drops, closes and
\* cleanups failed, unless NewImporter failed; then it has returned that
\* error and made an attempt for no engine.
C22_NoOrphanedEngine ==
    (pc = "done" /\ backendKind \in {"importer", "local"}) =>
        IF importerConn = "failed"
        THEN /\ ret = Err("NewImporter", "", 0)
             /\ Attempted = {}
        ELSE Orphaned = {}

\* both tables were destroyed, a table drop and an engine step failed, and
\* still every engine of both tables, index engines included, had its attempt
C22_Witness ==
    /\ pc = "done"
    /\ backendKind \in {"importer", "local"}
    /\ Destroyed = Tables
    /\ dropFailed
    /\ engineFailed
    /\ \A t \in Tables : <<t, -1>> \in Attempted /\ <<t, MaxEngineID>> \in Attempted
    /\ Orphaned = {}

\* the engines of one returned table a close or cleanup attempt was made for
AttemptedOf(t) ==
    {e \in closeAttempted : e[1] = t}
        \cup {e \in Engines0(t) : MakeUUID(e[1], e[2]) \in localAttempted}

\* the engine loops run, or have run, to their end
LoopsEntered ==
    /\ targetTables # <<>>
    /\ \/ backendKind = "importer" /\ importerConn = "open"
       \/ backendKind = "local"

\* every engine visited lies in the range of its table, the loop variable
\* never falls below MinEngineID, and once the command is past the loops each
\* table had MaxEngineID - MinEngineID + 1 engines visited, none for
\* MinEngineID > MaxEngineID
VisitsTheRange ==
    /\ pc \in {"importerEngine", "localEngine"} =>
          engineID >= targetTables[ti].MinEngineID
    /\ closeAttempted \subseteq AllEngines(targetTables)
    /\ localAttempted \subseteq TargetUUIDs
    /\ (pc \in {"metas", "done"} /\ LoopsEntered) =>
          \A i \in DOMAIN targetTables :
             LET t == targetTables[i]
             IN Cardinality(AttemptedOf(t.TableName)) =
                   IF t.MinEngineID > t.MaxEngineID
                   THEN 0
                   ELSE (t.MaxEngineID - t.MinEngineID) + 1

\* within one engine loop the loop variable only grows
Ascending ==
    (pc \in {"importerEngine", "localEngine"} /\ pc' = pc) => engineID' > engineID

\* C23: for every int32 range, MaxEngineID = 2^31 - 1 and negative IDs
\* included, each engine loop of checkpointErrorDestroy visits the engine IDs
\* of [MinEngineID, MaxEngineID] and no other, each once and in ascending
\* order, and has visited MaxEngineID - MinEngineID + 1 of them when it is
\* left (none when MinEngineID > MaxEngineID).
C23_EngineLoopsVisitRangeOnce == []VisitsTheRange /\ [][Ascending]_vars

----------------------------------------------------------------------------
(* Properties of checkpointDump *)

\* C1: after a successful dump the three sinks are three different files, and
\* tables.csv, engines.csv and chunks.csv hold exactly the tables, engines and
\* chunks dumps.
C1_DumpsToDistinctFiles ==
    (pc = "done" /\ ret = NoErr /\ chunksFile # NilHandle) =>
        /\ tablesFile.name # enginesFile.name
        /\ tablesFile.name # chunksFile.name
        /\ enginesFile.name # chunksFile.name
        /\ dumpFolder[TablesFileName] = [exists |-> TRUE, data |-> TablesDump(cpdb)]
        /\ dumpFolder[EnginesFileName] = [exists |-> TRUE, data |-> EnginesDump(cpdb)]
        /\ dumpFolder[ChunksFileName] = [exists |-> TRUE, data |-> ChunksDump(cpdb)]

----------------------------------------------------------------------------
(* Properties of the fleet commands *)

\* C8: when compactCluster or switchMode finishes and discovery did not fail,
\* the operation was invoked on every node that is not Disconnected, whichever
\* nodes failed it, and the call returns nil; it returns an error only when
\* discovery failed (or, for switchMode, the mode string was rejected before
\* any node was contacted).
C8_FleetIsolation ==
    (pc = "done" /\ fleetCmd \in {"compact", "switch-mode"}) =>
        /\ ret = NoErr =>
              invoked = {n \in Nodes : stores[n] # "Disconnected"}
        /\ ret # NoErr =>
              /\ invoked = {}
              /\ ret[1] \in {"discovery", "invalid mode"}
        /\ ret[1] = "invalid mode" <=>
              (fleetCmd = "switch-mode" /\ modeArg \notin {"import", "normal"})

\* one node is Disconnected, the operation failed on a second node and was
\* invoked on a third all the same, and the call returned nil
C8_Witness ==
    /\ pc = "done"
    /\ fleetCmd \in {"compact", "switch-mode"}
    /\ ret = NoErr
    /\ Cardinality(opFailed) = 1
    /\ Cardinality(invoked \ opFailed) >= 1
    /\ \E n \in Nodes : stores[n] = "Disconnected"

\* C16: when fetchMode finishes and discovery did not fail, a line was
\* printed for every node that is not Disconnected, holding the node's mode
\* or, when the query failed, the error; no node's failure reached the
\* dispatcher; fetchMode returns an error only when discovery failed, and
\* then nothing was queried.
C16_FetchModeNeverAborts ==
    fleetCmd = "fetch-mode" =>
        /\ logged = {}
        /\ \A n \in Nodes :
              printed[n] = IF n \notin invoked THEN ""
                           ELSE IF n \in opFailed THEN "Error"
                           ELSE nodeMode[n] \o " mode"
        /\ (pc = "done" /\ ret = NoErr) =>
              invoked = {n \in Nodes : stores[n] # "Disconnected"}
        /\ (pc = "done" /\ ret # NoErr) =>
              /\ ret = FleetErr("discovery")
              /\ invoked = {}

\* the query failed on one node and succeeded on another after it, one node
\* is Disconnected, and fetchMode returned nil
C16_Witness ==
    /\ pc = "done"
    /\ fleetCmd = "fetch-mode"
    /\ ret = NoErr
    /\ \E n \in Nodes : printed[n] = "Error"
    /\ \E n \in Nodes : printed[n] = "import mode"
    /\ \E n \in Nodes : stores[n] = "Disconnected" /\ printed[n] = ""

----------------------------------------------------------------------------
(* Properties of the engine commands *)

NoDuplicates(c) ==
    /\ \A e \in DOMAIN c : c[e] = 1
    /\ \A e1, e2 \in DOMAIN c : e1[1] = e2[1] => e1 = e2

----------------------------------------------------------------------------
(* Properties of the concurrent local cleanup *)

RangeUUIDs == {MakeUUID(LocalTableName, id) : id \in EnginesOf(lRange[1], lRange[2])}

\* C10: of two processes cleaning the same engines, one after the other or
\* interleaved, each one that met no I/O fault (a path already absent is not
\* one) finishes with lastErr nil, and once both have finished and one of
\* them met no fault, every segment of the range is absent.
C10_LocalCleanupIdempotent ==
    /\ \A p \in Procs :
          (lPc[p] = "done" /\ ~lHist[p].fault) => lLastErr[p] = NoErr
    /\ ((\A p \in Procs : lPc[p] = "done") /\ (\E p \in Procs : ~lHist[p].fault)) =>
          \A u \in RangeUUIDs : ~segDir[u].exists

\* both processes finished without a fault and with lastErr nil; one found a
\* segment already absent, one lost a race inside a removal
C10_Witness ==
    /\ \A p \in Procs : lPc[p] = "done" /\ ~lHist[p].fault /\ lLastErr[p] = NoErr
    /\ \E p \in Procs : lHist[p].absent
    /\ \E p \in Procs : lHist[p].raced
    /\ Cardinality(RangeUUIDs) >= 2

----------------------------------------------------------------------------
(* Properties of checkpointRemove *)

\* C11: every run of checkpointRemove with target "all" that meets no storage
\* or database fault returns nil, on an empty store and on a second run in a
\* row as well, and after every run that returned nil the store holds no row
\* at the task, table, engine and chunk levels.
C11_RemoveAllIdempotent ==
    (pc = "done" /\ tableName = "all") =>
        /\ ~rmHist.fault => ret = NoErr
        /\ ret = NoErr => store = EmptyStore

\* the second run in a row returned nil, on the store the first run, which
\* returned nil too, had left empty
C11_Witness ==
    /\ pc = "done"
    /\ tableName = "all"
    /\ rmRun = 2
    /\ ret = NoErr
    /\ rmHist.prevRet = <<NoErr>>
    /\ rmHist.before = EmptyStore
    /\ store = EmptyStore

\* C12: a run of checkpointRemove with a single-table target that returned
\* nil has deleted the table, engine and chunk rows of that table and left
\* the rows of every other table, and the task row, as they were.
C12_RemoveOneTableFrame ==
    (pc = "done" /\ ret = NoErr /\ tableName # "all") =>
        /\ RowsOf(store, tableName) = RowsOf(EmptyStore, tableName)
        /\ \A t \in Tables \ {tableName} :
              RowsOf(store, t) = RowsOf(rmHist.before, t)
        /\ store.task = rmHist.before.task

\* the target table had engine and chunk rows, and so had another table
C12_Witness ==
    /\ pc = "done"
    /\ ret = NoErr
    /\ tableName # "all"
    /\ RowsOf(rmHist.before, tableName).chunks # {}
    /\ \E t \in Tables \ {tableName} : RowsOf(store, t).chunks # {}

\* C17: when checkpointRemove has returned, cleanupMetas was called exactly
\* when TaskCheckpoint returned a task with a non-zero taskID; otherwise the
\* metadata tables are as they were, and unless TaskCheckpoint or the open
\* failed RemoveCheckpoint was called.
C17_MetasIffTaskInitialized ==
    pc = "done" =>
        /\ rmHist.metasCalled <=>
              (rmHist.taskRead /\ rmHist.before.task.exists
                               /\ rmHist.before.task.TaskID # 0)
        /\ ~rmHist.metasCalled => metas = rmHist.metasBefore
        /\ (rmHist.taskRead /\ ~rmHist.metasCalled) => rmHist.removeCalled

\* a task row with taskID 0 and existing metadata tables: no metadata cleanup,
\* RemoveCheckpoint called
C17_Witness ==
    /\ pc = "done"
    /\ rmHist.before.task.exists
    /\ rmHist.before.task.TaskID = 0
    /\ ~rmTaskCp.nil
    /\ metas.tableMeta
    /\ rmHist.removeCalled
    /\ ~rmHist.metasCalled

\* the steps of checkpointRemove that come before RemoveCheckpoint, by the
\* kind of the error each returns
StepsBeforeRemove ==
    {"OpenCheckpointsDB", "TaskCheckpoint"}
        \cup {"DBFromConfig", "TableExists", "RemoveTableMetaByTableName",
              "MaybeCleanupAllMetas"}

\* C21: checkpointRemove calls cleanupMetas, when it calls it, before
\* RemoveCheckpoint, and a run in which OpenCheckpointsDB, TaskCheckpoint or
\* cleanupMetas failed returns that error without calling RemoveCheckpoint
\* and leaves every checkpoint row as it was before the run.
C21_RemoveFailStop ==
    /\ pc = "rm.metas" => ~rmHist.removeCalled
    /\ (rmHist.removeCalled /\ NeedsMetaCleanup(rmTaskCp)) => rmHist.metasCalled
    /\ rmHist.failed \cap StepsBeforeRemove # {} =>
          /\ pc = "done"
          /\ ret[1] \in rmHist.failed
          /\ ~rmHist.removeCalled
          /\ store = rmHist.before

\* cleanupMetas failed after it had removed metadata rows, on a store that
\* holds checkpoint rows: they are all still there
C21_Witness ==
    /\ pc = "done"
    /\ rmHist.metasCalled
    /\ ret[1] = "MaybeCleanupAllMetas"
    /\ metas # rmHist.metasBefore
    /\ store.chunks # {}
    /\ store = rmHist.before
    /\ ~rmHist.removeCalled

----------------------------------------------------------------------------
(* Properties of getLocalStoringTables *)

\* C14: getLocalStoringTables never changes the checkpoint store nor creates
\* one; it opens the store only after the existence check returned true; and
\* when the backend is not the local backend or the check found no store, it
\* returns nil and prints that no table has lost intermediate files, without
\* opening the store.
C14_LocalStoringReadOnly ==
    /\ cpdb = cpdb0
    /\ dbExists = glHist.existed
    /\ glHist.opened => (glHist.checked /\ glHist.exist)
    /\ (pc = "done" /\ (backendKind # "local" \/ (glHist.checked /\ ~glHist.exist))) =>
          /\ ret = NoErr
          /\ glOut = NoTableMsg
          /\ ~glHist.opened

\* the local backend, and a store that does not exist: the check was made,
\* the store was not opened and still does not exist
C14_Witness ==
    /\ pc = "done"
    /\ backendKind = "local"
    /\ glHist.checked
    /\ ~glHist.exist
    /\ ~dbExists
    /\ ret = NoErr
    /\ glOut = NoTableMsg

----------------------------------------------------------------------------
(* Properties of argument validation *)

\* engine identifiers with a non-numeric engine ID after the last ':', or
\* with no ':' and no UUID
MalformedEngineArgs == {<<"t", ":", "x">>, <<"t", ":">>, <<"z", "z">>}

\* C15: switchMode with a mode string other than import or normal never
\* reaches discovery nor any node and returns an error; importEngine and
\* cleanupEngine with a malformed engine identifier issue no close, import or
\* cleanup on any engine and return an error.
C15_InvalidArgumentsNoEffect ==
    /\ (fleetCmd = "switch-mode" /\ modeArg \notin {"import", "normal"}) =>
          /\ pc \in {"fleet.start", "done"}
          /\ selected = {}
          /\ invoked = {}
          /\ pc = "done" => ret # NoErr
    /\ engineArg \in MalformedEngineArgs =>
          /\ engCalls = <<>>
          /\ ce = NoEngine
          /\ ~afterFirst.set
          /\ pc \in {"engine.start", "engine.close", "done"}
          /\ pc = "done" => ret # NoErr

\* the import service was reachable and the engine ID after the ':' was not
\* a number: the command returned the parse error and called nothing
C15_Witness ==
    /\ pc = "done"
    /\ engineArg = <<"t", ":", "x">>
    /\ importerConn = "open"
    /\ ret = Err("Atoi", "", 0)
    /\ engCalls = <<>>

----------------------------------------------------------------------------
(* Properties of main and run *)

\* no command has touched anything
NothingExecuted ==
    /\ executed = "none"
    /\ cpdb = cpdb0
    /\ catalog = Tables
    /\ dropAttempted = {}
    /\ invoked = {}
    /\ engCalls = <<>>
    /\ importerConn = "none"
    /\ dumpFolder = [n \in DumpFileNames |-> NoFile]
    /\ ~rmHist.taskRead
    /\ ~glHist.checked

\* C18 as stated: the exit status is non-zero exactly when a command was
\* executed and returned an error, and when no action flag is given the usage
\* help is printed, nothing is executed and the status is zero.
C18_ExitStatusOfCommand ==
    pc = "exited" =>
        /\ exitStatus # 0 <=> (executed # "none" /\ ret # NoErr)
        /\ flags = {} => (usage /\ NothingExecuted /\ exitStatus = 0)

\* C18 as amended: the exit status is 1 when run() returned an error and 0
\* otherwise; run() returns the error of the command it dispatched to, or,
\* with no command dispatched, an error of loading the configuration; when
\* the configuration loads and no action flag is given, the usage help is
\* printed, nothing is executed and the status is zero; the usage help is
\* printed in no other case.
C18_ExitStatusOfRun ==
    /\ exitStatus \in {-1, 0, 1}
    /\ pc = "exited" <=> exitStatus # -1
    /\ pc = "exited" =>
          /\ exitStatus = 1 <=> ret # NoErr
          /\ (executed = "none" /\ ret # NoErr) =>
                (ret[1] \in ConfigSteps /\ NothingExecuted /\ ~usage)
          /\ (flags = {} /\ ret = NoErr) =>
                (usage /\ NothingExecuted /\ exitStatus = 0)
          /\ usage => (flags = {} /\ NothingExecuted /\ ret = NoErr)
          /\ executed # "none" => executed \in flags

\* a command was dispatched and failed, and the process exited with status 1
C18_Witness ==
    /\ pc = "exited"
    /\ executed = "checkpoint-error-destroy"
    /\ flags = {"checkpoint-error-destroy", "check-local-storage"}
    /\ lastFailed[1] = "DropTable"
    /\ ret # NoErr
    /\ exitStatus = 1

----------------------------------------------------------------------------
(* Properties of SUM *)

NonNull(rows) == SelectSeq(rows, LAMBDA d : ~d.null)

\* the sum of the non-NULL rows, in units of 10^-MaxFrac
RECURSIVE Total(_)
Total(rows) ==
    IF rows = <<>> THEN 0
    ELSE Head(rows).v * Pow10(MaxFrac - Head(rows).frac) + Total(Tail(rows))

\* datum d is the SUM of rows: NULL when no row is non-NULL
IsSumOf(d, rows) ==
    IF NonNull(rows) = <<>>
    THEN d.null
    ELSE ~d.null /\ d.v * Pow10(MaxFrac - d.frac) = Total(NonNull(rows))

----------------------------------------------------------------------------
(* Properties of the engine lifecycle *)

\* Import and Cleanup come second in a run, after a successful close of the
\* engine the argument names; after a failed close nothing is called
CloseFirst ==
    /\ \A k \in DOMAIN engCalls :
          engCalls[k] \in {"import", "cleanup"} =>
              /\ k = 2
              /\ engCalls[1] = "close"
              /\ ce = EngineOfArg(engineArg).uuid
    /\ (engCalls # <<>> /\ engCalls[1] = "close.failed") => (Len(engCalls) = 1 /\ ce = NoEngine)
    /\ closeOK \subseteq closeAttempted
    /\ cleanupAttempted \subseteq closeOK

\* an engine becomes CleanedUp only from Closed, Importing or Imported, and
\* a CleanedUp engine stays CleanedUp
CleanedUpTerminal ==
    \A u \in EngineKeys :
        /\ (engState[u] # "CleanedUp" /\ engState'[u] = "CleanedUp") =>
              engState[u] \in {"Closed", "Importing", "Imported"}
        /\ engState[u] = "CleanedUp" => engState'[u] = "CleanedUp"

\* C20: in import-engine, cleanup-engine and checkpoint-error-destroy, Import
\* and Cleanup are called on an engine only after UnsafeCloseEngine succeeded
\* on that engine in the same command, a failed close is followed by neither,
\* and an engine enters CleanedUp only from Closed, Importing or Imported and
\* never leaves it.
C20_EngineLifecycleOrder == []CloseFirst /\ [][CleanedUpTerminal]_vars

\* cleanup-engine closed an engine and cleaned it up, and a second run of it
\* on the cleaned engine has closed and cleaned again and returned nil
C20_Witness ==
    /\ pc = "done"
    /\ engCmd = "cleanup-engine"
    /\ runNo = 2
    /\ engCalls = <<"close", "cleanup">>
    /\ engState[ce] = "CleanedUp"
    /\ ret = NoErr

====
